---- MODULE Spec2Model ----
(***************************************************************************)
(* A model of maze-face: the uniform-grid maze generator                   *)
(* (src/src/maze/MazeGenerator.ts with src/src/utils/seedRandom.ts), the   *)
(* plot-job path optimiser (src/src/axidraw/job.ts) and the AxiDraw        *)
(* plotter bridge (src/src/axidraw/plotter.ts, src/src/axidraw/ebb.ts).    *)
(*                                                                         *)
(* Six specifications share the module's variables:                        *)
(*   SpecMaze  two consecutive generateMaze calls on the same inputs       *)
(*   SpecPath  optimizePath and stitchSegmentsIntoChains on segment lists  *)
(*   SpecPlot  the Plotter object, its asynchronous operations, the EBB    *)
(*             command interface and the device behind it                  *)
(*   SpecQuad  the quadtree generateMaze (src/unnamed/part_002) and the    *)
(*             wall extractor of the plot job                              *)
(*   SpecSend  sendCommand calls on one connection                         *)
(*   SpecQuery calls of getDensity and of estimatePlotTime                 *)
(* Each specification holds the other parts' variables at their idle       *)
(* values.                                                                 *)
(***************************************************************************)
EXTENDS Integers, Sequences, FiniteSets, TLC

\* ------------------------------------------------------------------------
\* 32-bit words.  TLC's integers are 32-bit signed, so a JavaScript uint32
\* is kept as <<hi, lo>>, two 16-bit halves.
\* ------------------------------------------------------------------------

B16 == 256 * 256

RECURSIVE XorN(_, _, _)
\* bitwise exclusive-or of the low n bits of a and b
XorN(a, b, n) ==
  IF n = 0 THEN 0
  ELSE (((a % 2) + (b % 2)) % 2) + 2 * XorN(a \div 2, b \div 2, n - 1)

RECURSIVE OrN(_, _, _)
\* bitwise or of the low n bits of a and b
OrN(a, b, n) ==
  IF n = 0 THEN 0
  ELSE (IF (a % 2) = 1 \/ (b % 2) = 1 THEN 1 ELSE 0) + 2 * OrN(a \div 2, b \div 2, n - 1)

RECURSIVE Pow2(_)
Pow2(k) == IF k = 0 THEN 1 ELSE 2 * Pow2(k - 1)

\* a ^ b on words
WXor(a, b) == <<XorN(a[1], b[1], 16), XorN(a[2], b[2], 16)>>

\* c | a for a small constant c < 2^16
WOrLow(c, a) == <<a[1], OrN(c, a[2], 16)>>

\* a >>> k for 0 < k < 16
WShr(a, k) ==
  <<a[1] \div Pow2(k), (a[2] \div Pow2(k)) + ((a[1] % Pow2(k)) * Pow2(16 - k))>>

\* (a + b) | 0 : addition modulo 2^32
WAdd(a, b) ==
  LET lo == a[2] + b[2]
  IN  <<(a[1] + b[1] + (lo \div B16)) % B16, lo % B16>>

\* the low 16 bits of x * y, for 16-bit x and y
MulLo16(x, y) == ((((x * (y \div 256)) % 256) * 256) + (x * (y % 256))) % B16

\* Math.imul(a, b): the low 32 bits of the product
WMul(a, b) ==
  LET p1 == a[2] * (b[2] \div 256)
      p0 == a[2] * (b[2] % 256)
      low == ((p1 % 256) * 256) + p0
      carry == (p1 \div 256) + (low \div B16)
  IN  <<(MulLo16(a[1], b[2]) + MulLo16(a[2], b[1]) + carry) % B16, low % B16>>

\* the 32-bit word of a small non-negative integer seed
WordOf(n) == <<n \div B16, n % B16>>

\* 0x6d2b79f5
Mulberry == <<27947, 31221>>

\* SeededRandom.next(), line 13: Math.imul(t ^ (t >>> 15), 1 | t)
Mix15(t) == WMul(WXor(t, WShr(t, 15)), WOrLow(1, t))

\* SeededRandom.next(), line 14: (t + Math.imul(t ^ (t >>> 7), 61 | t)) ^ t
Mix7(t) == WXor(WAdd(t, WMul(WXor(t, WShr(t, 7)), WOrLow(61, t))), t)

\* SeededRandom.next(), line 15: (t ^ (t >>> 14)) >>> 0, the 32-bit numerator
\* of the result
Mix14(t) == WXor(t, WShr(t, 14))

\* SeededRandom.next() once the state has been advanced to s
Draw(s) == [state |-> s, u |-> Mix14(Mix7(Mix15(s)))]

\* SeededRandom.next(): the new state and the 32-bit numerator u of the
\* result u / 4294967296
Mulberry32(state) == Draw(WAdd(state, Mulberry))

\* The state of a generator after n draws is seed + n * 0x6d2b79f5, so the
\* states one generateMaze call can pass through are known in advance; the
\* results of next() on them are tabulated once.
MaxSeed == 5
MaxWidth == 4
MaxHeight == 4
\* one call draws at most 6 + 7 + 2 times per cell over its three passes
MaxDraws == 15 * MaxWidth * MaxHeight

DrawTable ==
  [s \in {WAdd(WordOf(sd), WMul(WordOf(n), Mulberry)) : sd \in 0 .. MaxSeed, n \in 0 .. MaxDraws}
     |-> Mulberry32(s)]

\* SeededRandom.next(), through the table where it has the state
RngNext(state) ==
  IF state \in DOMAIN DrawTable THEN DrawTable[state] ELSE Mulberry32(state)

\* u / 4294967296 < n / d for a draw u and small integers n <= d
DrawBelow(u, n, d) == (u[1] * d) + ((u[2] * d) \div B16) < n * B16

\* SeededRandom.nextInt(0, n) for a draw u: Math.floor(u / 2^32 * n).  The
\* product u * n has at most 37 bits, so the double arithmetic is exact.
NextInt(u, n) == ((u[1] * n) + ((u[2] * n) \div B16)) \div B16

\* new SeededRandom(seed): the generator state is the seed
SeededRandom(seed) == WordOf(seed)

\* ------------------------------------------------------------------------
\* The uniform-grid maze generator (src/src/maze/MazeGenerator.ts)
\* ------------------------------------------------------------------------

DIRECTIONS == <<"north", "south", "east", "west">>

DX == [north |-> 0, south |-> 0, east |-> 1, west |-> -1]

DY == [north |-> -1, south |-> 1, east |-> 0, west |-> 0]

OPPOSITE == [north |-> "south", south |-> "north", east |-> "west", west |-> "east"]

\* Densities are kept in quarters, q = 4 * density in 0..4: these values are
\* exact in the Float32Array of a DensityMap and in the doubles derived
\* from them.
Quarters == 0 .. 4

\* A variant of getDensity that reads the nearest cell for a coordinate out
\* of range.
getDensityClamped(map, x, y) ==
  LET cx == IF x < 0 THEN 0 ELSE IF x >= map.width THEN map.width - 1 ELSE x
      cy == IF y < 0 THEN 0 ELSE IF y >= map.height THEN map.height - 1 ELSE y
  IN  map.cells[(cy * map.width) + cx + 1]

\* getDensity(map, x, y), in quarters; 2 is the neutral 0.5
getDensity(map, x, y) ==
  IF x < 0 \/ x >= map.width \/ y < 0 \/ y >= map.height
  THEN 2
  ELSE map.cells[(y * map.width) + x + 1]

createCell(density) ==
  [walls |-> [north |-> TRUE, east |-> TRUE, south |-> TRUE, west |-> TRUE],
   visited |-> FALSE,
   density |-> density]

\* A variant of removeWall that clears the flag on the cell's side only.
removeWallOneSide(cs, cell, neighbor, dir) ==
  [cs EXCEPT ![cell].walls[dir] = FALSE]

removeWall(cs, cell, neighbor, dir) ==
  [cs EXCEPT ![cell].walls[dir] = FALSE,
             ![neighbor].walls[OPPOSITE[dir]] = FALSE]

InGrid(p, w, h) == p[1] >= 0 /\ p[1] < w /\ p[2] >= 0 /\ p[2] < h

Step(p, dir) == <<p[1] + DX[dir], p[2] + DY[dir]>>

\* generateBaseMaze, lines 99-110: the unvisited neighbours of current, in
\* DIRECTIONS order
UnvisitedNeighbors(cs, current, w, h) ==
  LET ok(dir) == InGrid(Step(current, dir), w, h) /\ ~cs[Step(current, dir)].visited
      F[i \in 0 .. 4] ==
        IF i = 0 THEN <<>>
        ELSE IF ok(DIRECTIONS[i])
             THEN Append(F[i - 1], [cell |-> Step(current, DIRECTIONS[i]), dir |-> DIRECTIONS[i]])
             ELSE F[i - 1]
  IN  F[4]

\* the weight 1 - density * 0.3 of a neighbour, in fortieths
Weight40(q) == 40 - (3 * q)

RECURSIVE SumTo(_, _)
SumTo(ws, i) == IF i = 0 THEN 0 ELSE ws[i] + SumTo(ws, i - 1)

\* SeededRandom.weightedPick(items, weights) for a draw u: the first i with
\* u / 2^32 * total - (w1 + ... + wi) <= 0, else the last item.  Weights are
\* exact rationals here where the code has doubles.
weightedPick(u, items, weights) ==
  LET total == SumTo(weights, Len(weights))
      scaled == (u[1] * total) + (((u[2] * total) + B16 - 1) \div B16)
      hit(i) == scaled <= SumTo(weights, i) * B16
      idx == IF \E i \in 1 .. Len(items) : hit(i)
             THEN CHOOSE i \in 1 .. Len(items) : hit(i) /\ \A j \in 1 .. (i - 1) : ~hit(j)
             ELSE Len(items)
  IN  items[idx]

\* SeededRandom.pick(arr) for a draw u
pick(u, arr) == arr[NextInt(u, Len(arr)) + 1]

Swap(arr, i, j) == [arr EXCEPT ![i] = arr[j], ![j] = arr[i]]

RECURSIVE shuffle(_, _, _)
\* SeededRandom.shuffle(arr): Fisher-Yates from index i (1-based) down to 2
shuffle(arr, i, state) ==
  IF i < 2 THEN [arr |-> arr, state |-> state]
  ELSE LET r == RngNext(state)
       IN  shuffle(Swap(arr, i, NextInt(r.u, i) + 1), i - 1, r.state)

\* wouldCreateLargeOpen(cells, x, y, dir, width, height)
wouldCreateLargeOpen(cs, x, y, dir, w, h) ==
  LET nx == x + DX[dir]
      ny == y + DY[dir]
      minx == IF x < nx THEN x ELSE nx
      maxx == IF x < nx THEN nx ELSE x
      miny == IF y < ny THEN y ELSE ny
  IN  IF dir \in {"east", "west"}
      THEN \E checkY \in {y - 1, y} :
             /\ ~(checkY < 0 \/ checkY >= h - 1)
             /\ ~cs[<<minx, checkY>>].walls.south
             /\ ~cs[<<minx, checkY>>].walls.east
             /\ ~cs[<<maxx, checkY>>].walls.south
      ELSE \E checkX \in {x - 1, x} :
             /\ ~(checkX < 0 \/ checkX >= w - 1)
             /\ ~cs[<<checkX, miny>>].walls.east
             /\ ~cs[<<checkX, miny>>].walls.south
             /\ ~cs[<<checkX + 1, miny>>].walls.south

\* A variant of the removal probability that is positive at strength 0.
RemovalProbFloor4(q, s) == ((2 - q) * s) + 1

\* removalProb = (lightness - 0.5) * 2 * wallRemovalStrength as a fraction
\* n / 4, for a density of q quarters and a strength of s halves
RemovalProb4(q, s) == (2 - q) * s

RECURSIVE TryDirs(_, _, _, _, _, _, _, _)
\* removeWallsInLightAreas, lines 150-166: the loop over the shuffled
\* directions of one cell, from the k-th direction on
TryDirs(cs, state, p, dirs, k, prob4, w, h) ==
  IF k > Len(dirs) THEN [cells |-> cs, state |-> state]
  ELSE LET dir == dirs[k]
           n == Step(p, dir)
       IN  IF ~cs[p].walls[dir] THEN TryDirs(cs, state, p, dirs, k + 1, prob4, w, h)
           ELSE IF ~InGrid(n, w, h) THEN TryDirs(cs, state, p, dirs, k + 1, prob4, w, h)
           ELSE IF wouldCreateLargeOpen(cs, p[1], p[2], dir, w, h)
                THEN TryDirs(cs, state, p, dirs, k + 1, prob4, w, h)
           ELSE LET r == RngNext(state)
                IN  IF DrawBelow(r.u, prob4, 4)
                    THEN [cells |-> removeWall(cs, p, n, dir), state |-> r.state]
                    ELSE TryDirs(cs, r.state, p, dirs, k + 1, prob4, w, h)

\* removeWallsInLightAreas, lines 137-166: the loop body for the cell at p
LightCell(cs, state, p, strength, w, h) ==
  IF cs[p].density >= 2 THEN [cells |-> cs, state |-> state]
  ELSE LET sh == shuffle(DIRECTIONS, 4, state)
       IN  TryDirs(cs, sh.state, p, sh.arr, 1, RemovalProb4(cs[p].density, strength), w, h)

\* rng.next() < addProb, with addProb = (density - 0.6) * 2.5 *
\* extraWallsStrength evaluated in doubles for a density of q quarters
\* (q >= 3) and a strength of s halves: 1 - 0.6 is 0.4 and 0.4 * 2.5 is 1
\* exactly, while 0.75 - 0.6 rounds up to 0.15000000000000002, so that for
\* q = 3 the bound 3 * s / 16 itself is still below addProb.
DrawBelowAddProb(u, q, s) ==
  IF q = 4 THEN DrawBelow(u, s, 2)
  ELSE \/ DrawBelow(u, 3 * s, 16)
       \/ s > 0 /\ u[2] = 0 /\ u[1] * 16 = 3 * s * B16

OpenDirs(cs, p) == SelectSeq(DIRECTIONS, LAMBDA d : ~cs[p].walls[d])

Interior(p, w, h) == p[1] > 0 /\ p[1] < w - 1 /\ p[2] > 0 /\ p[2] < h - 1

\* A variant of the closing step that closes towards any neighbour with two
\* or more open sides, on the border or not.
CloseGuardedAnyNeighbor(cs, p, dirToClose, w, h) ==
  LET n == Step(p, dirToClose)
  IN  IF Len(OpenDirs(cs, n)) >= 2
      THEN [cs EXCEPT ![p].walls[dirToClose] = TRUE,
                      ![n].walls[OPPOSITE[dirToClose]] = TRUE]
      ELSE cs

\* A variant of the closing step that sets the wall flag of the cell only.
CloseGuardedOneSide(cs, p, dirToClose, w, h) ==
  LET n == Step(p, dirToClose)
  IN  IF Interior(n, w, h) /\ Len(OpenDirs(cs, n)) >= 2
      THEN [cs EXCEPT ![p].walls[dirToClose] = TRUE]
      ELSE cs

\* addExtraComplexity, lines 246-254: close the wall between cell and its
\* neighbour when the neighbour is interior and has two or more open sides
CloseGuarded(cs, p, dirToClose, w, h) ==
  LET n == Step(p, dirToClose)
  IN  IF Interior(n, w, h) /\ Len(OpenDirs(cs, n)) >= 2
      THEN [cs EXCEPT ![p].walls[dirToClose] = TRUE,
                      ![n].walls[OPPOSITE[dirToClose]] = TRUE]
      ELSE cs

\* addExtraComplexity, lines 226-256: the loop body for the interior cell p
DarkCell(cs, state, p, strength, w, h) ==
  IF cs[p].density <= 2 THEN [cells |-> cs, state |-> state]
  ELSE LET r == RngNext(state)
       IN  IF ~DrawBelowAddProb(r.u, cs[p].density, strength)
           THEN [cells |-> cs, state |-> r.state]
           ELSE LET openDirs == OpenDirs(cs, p)
                IN  IF Len(openDirs) >= 3
                    THEN LET r2 == RngNext(r.state)
                         IN  [cells |-> CloseGuarded(cs, p, pick(r2.u, openDirs), w, h),
                              state |-> r2.state]
                    ELSE [cells |-> cs, state |-> r.state]

\* ------------------------------------------------------------------------
\* Path ordering (src/src/axidraw/job.ts).  A segment is a record with the
\* endpoints x1, y1, x2, y2 and the value it carries along: penHeight for a
\* PlotSegment, and for a WallSegment its brightness in the same place.
\* ------------------------------------------------------------------------

\* pointKey(x, y): the template string `${x},${y}` is kept as the pair; on
\* integer coordinates two keys are equal exactly when the points are
pointKey(x, y) == <<x, y>>

\* A variant of reversedSegment that swaps the x coordinates only.
reversedSegmentX(seg) == [seg EXCEPT !.x1 = seg.x2, !.x2 = seg.x1]

reversedSegment(seg) ==
  [seg EXCEPT !.x1 = seg.x2, !.y1 = seg.y2, !.x2 = seg.x1, !.y2 = seg.y1]

\* Math.hypot(x - cx, y - cy), squared: on integers the order of two
\* distances is the order of their squares
Dist2(x, y, cur) == ((x - cur[1]) * (x - cur[1])) + ((y - cur[2]) * (y - cur[2]))

\* d < best, where a negative best stands for Infinity
Nearer(d, best) == best < 0 \/ d < best

\* one candidate's two tests, job.ts 349-362 and 201-212: start first, then end
NearestAt(i, dStart, dEnd, best) ==
  IF Nearer(dStart, best.dist)
  THEN IF dEnd < dStart
       THEN [idx |-> i, dist |-> dEnd, rev |-> TRUE]
       ELSE [idx |-> i, dist |-> dStart, rev |-> FALSE]
  ELSE IF Nearer(dEnd, best.dist)
       THEN [idx |-> i, dist |-> dEnd, rev |-> TRUE]
       ELSE best

RECURSIVE Nearest(_, _, _, _)
\* the scan for the nearest endpoint, job.ts 341-363 and 193-213, over
\* candidates <<sx, sy, ex, ey>> from the i-th on
Nearest(cands, i, cur, best) ==
  IF i > Len(cands) THEN best
  ELSE Nearest(cands, i + 1, cur,
               NearestAt(i, Dist2(cands[i][1], cands[i][2], cur),
                            Dist2(cands[i][3], cands[i][4], cur), best))

\* the search starts with nearestIdx = 0, nearestDist = Infinity, no reversal
NoneYet == [idx |-> 1, dist |-> 0 - 1, rev |-> FALSE]

RemoveAt(sq, i) == SubSeq(sq, 1, i - 1) \o SubSeq(sq, i + 1, Len(sq))

\* optimizePath, lines 365-382: the nearest wall leaves remaining and joins
\* result, reversed when its end was the nearer endpoint
TakeWall(remaining, best, result) ==
  IF best.rev
  THEN [remaining |-> RemoveAt(remaining, best.idx),
        cur |-> <<remaining[best.idx].x1, remaining[best.idx].y1>>,
        result |-> Append(result, reversedSegment(remaining[best.idx]))]
  ELSE [remaining |-> RemoveAt(remaining, best.idx),
        cur |-> <<remaining[best.idx].x2, remaining[best.idx].y2>>,
        result |-> Append(result, remaining[best.idx])]

WallEnds(ws) == [i \in 1 .. Len(ws) |-> <<ws[i].x1, ws[i].y1, ws[i].x2, ws[i].y2>>]

RECURSIVE optimizeLoop(_)
\* optimizePath, lines 339-383: the while loop, on [remaining, cur, result]
optimizeLoop(st) ==
  IF Len(st.remaining) = 0 THEN st.result
  ELSE optimizeLoop(TakeWall(st.remaining,
                             Nearest(WallEnds(st.remaining), 1, st.cur, NoneYet),
                             st.result))

optimizePath(walls) ==
  IF Len(walls) = 0 THEN <<>>
  ELSE optimizeLoop([remaining |-> walls, cur |-> <<0, 0>>, result |-> <<>>])

RECURSIVE adjList(_, _, _)
\* stitchSegmentsIntoChains, lines 118-125: adj.get(k) after the first i
\* segments; a segment whose two endpoints are both k is listed twice
adjList(segments, k, i) ==
  IF i = 0 THEN <<>>
  ELSE adjList(segments, k, i - 1)
         \o (IF pointKey(segments[i].x1, segments[i].y1) = k THEN <<i>> ELSE <<>>)
         \o (IF pointKey(segments[i].x2, segments[i].y2) = k THEN <<i>> ELSE <<>>)

\* append k unless it is there already
AddKey(keys, k) == IF \E j \in 1 .. Len(keys) : keys[j] = k THEN keys ELSE Append(keys, k)

RECURSIVE adjKeys(_, _)
\* [...adj.keys()]: the endpoint keys in the order the Map first saw them
adjKeys(segments, i) ==
  IF i = 0 THEN <<>>
  ELSE AddKey(AddKey(adjKeys(segments, i - 1), pointKey(segments[i].x1, segments[i].y1)),
              pointKey(segments[i].x2, segments[i].y2))

RECURSIVE sortByDegree(_, _, _)
\* line 172: the (stable) sort of the keys by ascending degree, from degree d
sortByDegree(segments, keys, d) ==
  IF d > 2 * Len(segments) THEN <<>>
  ELSE SelectSeq(keys, LAMBDA k : Len(adjList(segments, k, Len(segments))) = d)
         \o sortByDegree(segments, keys, d + 1)

\* the first index of list that is not in used, or 0 for null
FirstUnused(list, used) ==
  IF \E j \in 1 .. Len(list) : list[j] \notin used
  THEN list[CHOOSE j \in 1 .. Len(list) :
              list[j] \notin used /\ \A m \in 1 .. (j - 1) : list[m] \in used]
  ELSE 0

\* takeNextFromEndpoint(endpoint), lines 133-140
takeNextFromEndpoint(segments, used, endpoint) ==
  FirstUnused(adjList(segments, endpoint, Len(segments)), used)

\* lines 152-153: the candidate, turned so that it starts at endKey
OrientFrom(cand, endKey) ==
  IF pointKey(cand.x1, cand.y1) = endKey THEN cand ELSE reversedSegment(cand)

\* A variant of the backward step that takes the candidate as it is stored.
OrientToAsGiven(cand, startKey) == cand

\* lines 163-164: the candidate, turned so that it ends at startKey
OrientTo(cand, startKey) ==
  IF pointKey(cand.x2, cand.y2) = startKey THEN cand ELSE reversedSegment(cand)

LastOf(chain) == chain[Len(chain)]

RECURSIVE extendForward(_, _, _, _)
\* buildChainFromSegment, lines 147-155; nextIdx is the segment taken at the
\* chain's end
extendForward(segments, used, chain, nextIdx) ==
  IF nextIdx = 0 THEN [chain |-> chain, used |-> used]
  ELSE extendForward(segments, used \cup {nextIdx},
         Append(chain, OrientFrom(segments[nextIdx], pointKey(LastOf(chain).x2, LastOf(chain).y2))),
         takeNextFromEndpoint(segments, used \cup {nextIdx},
           pointKey(OrientFrom(segments[nextIdx], pointKey(LastOf(chain).x2, LastOf(chain).y2)).x2,
                    OrientFrom(segments[nextIdx], pointKey(LastOf(chain).x2, LastOf(chain).y2)).y2)))

RECURSIVE extendBackward(_, _, _, _)
\* buildChainFromSegment, lines 158-166; nextIdx is the segment taken at the
\* chain's start
extendBackward(segments, used, chain, nextIdx) ==
  IF nextIdx = 0 THEN [chain |-> chain, used |-> used]
  ELSE extendBackward(segments, used \cup {nextIdx},
         <<OrientTo(segments[nextIdx], pointKey(chain[1].x1, chain[1].y1))>> \o chain,
         takeNextFromEndpoint(segments, used \cup {nextIdx},
           pointKey(OrientTo(segments[nextIdx], pointKey(chain[1].x1, chain[1].y1)).x1,
                    OrientTo(segments[nextIdx], pointKey(chain[1].x1, chain[1].y1)).y1)))

\* A variant of buildChainFromSegment that extends the chain forward only.
ForwardOnly(segments, fwd) == fwd

\* the backward extension that follows a finished forward extension
ThenBackward(segments, fwd) ==
  extendBackward(segments, fwd.used, fwd.chain,
    takeNextFromEndpoint(segments, fwd.used, pointKey(fwd.chain[1].x1, fwd.chain[1].y1)))

\* buildChainFromSegment(startIdx), lines 142-169, with the used set made
\* explicit
buildChainFromSegment(segments, used, startIdx) ==
  ThenBackward(segments,
    extendForward(segments, used \cup {startIdx}, <<segments[startIdx]>>,
      takeNextFromEndpoint(segments, used \cup {startIdx},
        pointKey(segments[startIdx].x2, segments[startIdx].y2))))

\* chains.push(buildChainFromSegment(idx)) on [chains, used]
PushChain(st, built) == [chains |-> Append(st.chains, built.chain), used |-> built.used]

\* lines 175-178: start a chain at endpoint ep when an unused segment
\* touches it
StartAt(segments, st, idx) ==
  IF idx # 0 THEN PushChain(st, buildChainFromSegment(segments, st.used, idx)) ELSE st

RECURSIVE fromEndpoints(_, _, _, _)
\* lines 173-179: the loop over the sorted endpoints, from the i-th on
fromEndpoints(segments, endpoints, i, st) ==
  IF i > Len(endpoints) THEN st
  ELSE fromEndpoints(segments, endpoints, i + 1,
         StartAt(segments, st, takeNextFromEndpoint(segments, st.used, endpoints[i])))

RECURSIVE fromRemaining(_, _, _)
\* lines 182-184: chains from the segments still unused, from the i-th on
fromRemaining(segments, i, st) ==
  IF i > Len(segments) THEN st
  ELSE fromRemaining(segments, i + 1, StartAt(segments, st, IF i \in st.used THEN 0 ELSE i))

\* line 217: chosen.slice().reverse().map(reversedSegment)
reverseChain(ch) == [i \in 1 .. Len(ch) |-> reversedSegment(ch[Len(ch) + 1 - i])]

ChainEnds(chs) ==
  [i \in 1 .. Len(chs) |-> <<chs[i][1].x1, chs[i][1].y1, LastOf(chs[i]).x2, LastOf(chs[i]).y2>>]

\* lines 215-223: the nearest chain leaves remainingChains and its segments
\* join ordered, the chain reversed when its end was the nearer endpoint
TakeChain(remainingChains, best, ordered) ==
  IF best.rev
  THEN [remaining |-> RemoveAt(remainingChains, best.idx),
        cur |-> <<remainingChains[best.idx][1].x1, remainingChains[best.idx][1].y1>>,
        ordered |-> ordered \o reverseChain(remainingChains[best.idx])]
  ELSE [remaining |-> RemoveAt(remainingChains, best.idx),
        cur |-> <<LastOf(remainingChains[best.idx]).x2, LastOf(remainingChains[best.idx]).y2>>,
        ordered |-> ordered \o remainingChains[best.idx]]

RECURSIVE orderChains(_)
\* lines 192-224: the while loop, on [remaining, cur, ordered]
orderChains(st) ==
  IF Len(st.remaining) = 0 THEN st.ordered
  ELSE orderChains(TakeChain(st.remaining,
                             Nearest(ChainEnds(st.remaining), 1, st.cur, NoneYet),
                             st.ordered))

\* lines 131 and 171-184: the chains, in the order they were built
buildChains(segments) ==
  fromRemaining(segments, 1,
    fromEndpoints(segments, sortByDegree(segments, adjKeys(segments, Len(segments)), 1), 1,
                  [chains |-> <<>>, used |-> {}])).chains

stitchSegmentsIntoChains(segments) ==
  IF Len(segments) <= 1 THEN segments
  ELSE orderChains([remaining |-> buildChains(segments), cur |-> <<0, 0>>, ordered |-> <<>>])

\* ------------------------------------------------------------------------
\* The plotter bridge (src/src/axidraw/plotter.ts, src/src/axidraw/ebb.ts).
\* A call of an asynchronous Plotter method is a task: the queue q of the
\* steps it still has to take, and what it is waiting for (the device's
\* answer to a command, a timer, the pause promise).  A world w is the
\* record of the Plotter, its EBB, the device and the tasks; Run takes a
\* task through its synchronous code up to its next wait.
\* ------------------------------------------------------------------------

penUpPosition == 70

STEPS_PER_MM == 80

\* one step of a task: its kind k, the command c it sends, the purpose p of
\* a move, a target x, y and a pen height h
Todo(k, c, p, x, y, h) == [k |-> k, c |-> c, p |-> p, x |-> x, y |-> y, h |-> h]

\* sendCommand(conn, c), awaited
SendCmd(c, p) == Todo("send", c, p, 0, 0, 0)

\* this.ebb.<method>: the Plotter's reference to its EBB is read
Deref == Todo("ebb?", "", "", 0, 0, 0)

\* EBB.setPenHeightViaSP(h), through penUp, penDown or setPenHeight
Pen(h) == Todo("pen", "", "", 0, 0, h)

\* EBB.moveTo(x, y), for the purpose p
MoveTo(x, y, p) == Todo("moveTo", "", p, x, y, 0)

\* EBB.home()
Home == Todo("home", "", "", 0, 0, 0)

\* the segment lists given to plot(): a first segment that starts at the
\* origin, a second one contiguous with it at another pen height, and a
\* third one that needs a travel move
PlotJobs ==
  << << [x1 |-> 0, y1 |-> 0, x2 |-> 1, y2 |-> 0, penHeight |-> 45],
        [x1 |-> 1, y1 |-> 0, x2 |-> 1, y2 |-> 1, penHeight |-> 25],
        [x1 |-> 0, y1 |-> 1, x2 |-> 0, y2 |-> 0, penHeight |-> 45] >> >>

\* a task: the method op running, its segment list, its steps q, what it
\* waits for, the number i of the segment it has begun last, and whether
\* pause() (with no resume() since) and stop() were called while it ran
IdleTask ==
  [op |-> "none", job |-> 0, q |-> <<>>, wait |-> "none", i |-> 0,
   held |-> FALSE, stopped |-> FALSE]

\* the call of task t returns: it resolves, or rejects with an error
Finish(w, t, result) ==
  [w EXCEPT !.tasks[t] = IdleTask,
            !.returned = [op |-> w.tasks[t].op, result |-> result]]

\* getStatus(), lines 403-412: Math.round rounds a half upwards
getStatus(p) ==
  [state |-> p.state,
   progress |-> IF p.progress.total > 0
                THEN ((200 * p.progress.current) + p.progress.total) \div (2 * p.progress.total)
                ELSE 0,
   currentSegment |-> p.progress.current,
   totalSegments |-> p.progress.total]

\* notifyStatus(), lines 414-418: the callback that the latest plot() call
\* has set, if it is still set, receives the status
notifyStatus(w) ==
  IF w.plotter.onStatusChange = "set" THEN [w EXCEPT !.observed = getStatus(w.plotter)] ELSE w

\* A variant of the finally block that leaves the state as it is.
FinallyKeepsState(w) ==
  notifyStatus([w EXCEPT !.plotter.abortController = "null", !.plotter.onStatusChange = "null"])

\* plot(), lines 235-240: the finally block
Finally(w) ==
  notifyStatus([w EXCEPT !.plotter.state = "connected", !.plotter.abortController = "null",
                         !.plotter.onStatusChange = "null"])

\* the errors a running call can end with: the one a device command threw,
\* the one of a write on a closed port, and the TypeError of a property
\* read on null
DeviceError == "device error"
PortClosed == "port closed"
TypeError == "TypeError"

\* task t throws error: plot() has no catch, so it runs its finally block
\* and rejects with the error; any other method rejects with it
Fail(w, t, error) ==
  IF w.tasks[t].op = "plot" THEN Finish(Finally(w), t, error)
  ELSE Finish(w, t, error)

\* sendCommand, line 393: the command is written to the port; the device
\* moves its pen on SP.  The pen state the device had is kept with the
\* command.  A write on a released writer throws.
Write(w, t, s, rest) ==
  IF ~w.device.open THEN Fail(w, t, PortClosed)
  ELSE [w EXCEPT !.tasks[t].q = rest,
                 !.tasks[t].wait = "ack",
                 !.sent = Append(@, [task |-> t, op |-> w.tasks[t].op, c |-> s.c, p |-> s.p,
                                     seg |-> w.tasks[t].i, penDown |-> w.device.penDown]),
                 !.device.penDown = IF s.c = "SP0" THEN TRUE
                                    ELSE IF s.c = "SP1" THEN FALSE ELSE @]

\* EBB.setPenHeightViaSP(h), lines 82-102, as steps
PenSteps(h) ==
  << SendCmd(IF h >= penUpPosition THEN "SC4" ELSE "SC5", "pen"),
     SendCmd(IF h >= penUpPosition THEN "SP1" ELSE "SP0", "pen"),
     Todo("setpen", "", "", 0, 0, h),
     Todo("delay", "", "", 0, 0, 0) >>

\* EBB.moveTo(x, y), lines 209-230, as steps: nothing when already there
MoveSteps(w, s) ==
  IF s.x = w.ebb.currentX /\ s.y = w.ebb.currentY THEN <<>>
  ELSE << SendCmd("SM", s.p), Todo("setpos", "", "", s.x, s.y, 0), Todo("delay", "", "", 0, 0, 0) >>

\* EBB.lineTo = EBB.moveWithHeight(x, y, h), lines 236-260, as steps
LineSteps(w, s) ==
  IF s.x = w.ebb.currentX /\ s.y = w.ebb.currentY THEN << Pen(s.h) >>
  ELSE (IF w.ebb.currentPenHeight # s.h \/ w.ebb.currentPenUp THEN << Pen(s.h) >> ELSE <<>>)
         \o << MoveTo(s.x, s.y, "draw") >>

\* the segments of the job of task t
SegmentsOf(w, t) == PlotJobs[w.tasks[t].job]

\* plot(), lines 217-230: the body of the loop for segment number i
BodySteps(w, seg, i) ==
  (IF w.ebb.currentX = seg.x1 /\ w.ebb.currentY = seg.y1 THEN <<>>
   ELSE << Pen(penUpPosition), MoveTo(seg.x1, seg.y1, "travel") >>)
    \o << Deref, Todo("lineTo", "", "", seg.x2, seg.y2, seg.penHeight),
          Todo("loop", "", "", i + 1, 0, 0) >>

RECURSIVE Run(_, _)

\* task t goes on with the steps q
Go(w, t, q) == Run([w EXCEPT !.tasks[t].q = q], t)

\* plot(), lines 206-215: the head of the loop for segment number s.x
LoopHead(w, t, s, rest) ==
  IF s.x > Len(SegmentsOf(w, t)) THEN Go(w, t, rest)
  ELSE IF w.plotter.abortController = "null" THEN Fail(w, t, TypeError)
  ELSE IF w.plotter.abortController = "aborted" THEN Go(w, t, rest)
  ELSE IF w.plotter.pausePromise = "pending"
       THEN [w EXCEPT !.tasks[t].q = << Todo("body", "", "", s.x, 0, 0) >> \o rest,
                      !.tasks[t].wait = "pause",
                      !.waiters = Append(@, t)]
  ELSE Go(w, t, << Todo("body", "", "", s.x, 0, 0) >> \o rest)

\* plot(), lines 217-222: segment number s.x begins
LoopBody(w, t, s, rest) ==
  IF ~w.plotter.hasEbb
  THEN Fail(notifyStatus([w EXCEPT !.tasks[t].i = s.x, !.plotter.progress.current = s.x]),
            t, TypeError)
  ELSE Go(notifyStatus([w EXCEPT !.tasks[t].i = s.x, !.plotter.progress.current = s.x]), t,
          BodySteps(w, SegmentsOf(w, t)[s.x], s.x) \o rest)

\* one step s of task t, with the steps rest after it
Exec(w, t, s, rest) ==
  CASE s.k = "send" -> Write(w, t, s, rest)
    [] s.k = "delay" -> [w EXCEPT !.tasks[t].q = rest, !.tasks[t].wait = "delay"]
    [] s.k = "close" -> [w EXCEPT !.tasks[t].q = rest, !.tasks[t].wait = "close",
                                  !.device.open = FALSE]
    [] s.k = "setpen" -> Go([w EXCEPT !.ebb.currentPenUp = (s.h >= penUpPosition),
                                      !.ebb.currentPenHeight = s.h], t, rest)
    [] s.k = "setpos" -> Go([w EXCEPT !.ebb.currentX = s.x, !.ebb.currentY = s.y], t, rest)
    [] s.k = "pen" -> Go(w, t, PenSteps(s.h) \o rest)
    [] s.k = "moveTo" -> Go(w, t, MoveSteps(w, s) \o rest)
    [] s.k = "lineTo" -> Go(w, t, LineSteps(w, s) \o rest)
    [] s.k = "home" ->
         Go(w, t, << Pen(penUpPosition), MoveTo(0, 0, "home"), Todo("setpos", "", "", 0, 0, 0) >> \o rest)
    [] s.k = "ebb?" -> IF w.plotter.hasEbb THEN Go(w, t, rest) ELSE Fail(w, t, TypeError)
    [] s.k = "loop" -> LoopHead(w, t, s, rest)
    [] s.k = "body" -> LoopBody(w, t, s, rest)
    [] s.k = "finally" -> Go(Finally(w), t, rest)
    [] s.k = "ebbnull" -> Go([w EXCEPT !.plotter.hasEbb = FALSE], t, rest)
    [] s.k = "state" -> Go(notifyStatus([w EXCEPT !.plotter.state = s.c]), t, rest)
    [] s.k = "closed" -> Go(notifyStatus([w EXCEPT !.plotter.hasConn = FALSE,
                                                   !.plotter.state = "disconnected"]), t, rest)

\* task t runs until it waits or returns
Run(w, t) ==
  IF w.tasks[t].q = <<>> THEN Finish(w, t, "resolved")
  ELSE Exec(w, t, Head(w.tasks[t].q), Tail(w.tasks[t].q))

\* what task t was waiting for has happened
Continue(w, t) == Run([w EXCEPT !.tasks[t].wait = "none"], t)

RECURSIVE Wake(_, _)
\* the pause promise resolves: the tasks awaiting it go on, in the order
\* in which they began to wait
Wake(w, ts) ==
  IF ts = <<>> THEN w ELSE Wake(Continue(w, Head(ts)), Tail(ts))

\* a new call of a Plotter method becomes task t
StartTask(w, t, op, job, q) ==
  Run([w EXCEPT !.tasks[t] = [op |-> op, job |-> job, q |-> q, wait |-> "none", i |-> 0,
                              held |-> FALSE, stopped |-> FALSE]], t)

\* ------------------------------------------------------------------------
\* The quadtree variant (src/unnamed/part_002, generateMaze) and the wall
\* extractor of the plot job (src/src/axidraw/job.ts).  A node is a record
\* with x, y, w, h and rawBrightness; nodes are named by their position in
\* the nodes array (id + 1).  Lengths are in pixels.
\* ------------------------------------------------------------------------

\* A variant of the four quadrants in which the lower two start at y.
QuadrantsFlat(r) ==
  << [x |-> r.x, y |-> r.y, w |-> r.w \div 2, h |-> r.h \div 2],
     [x |-> r.x + (r.w \div 2), y |-> r.y, w |-> r.w \div 2, h |-> r.h \div 2],
     [x |-> r.x, y |-> r.y, w |-> r.w \div 2, h |-> r.h \div 2],
     [x |-> r.x + (r.w \div 2), y |-> r.y, w |-> r.w \div 2, h |-> r.h \div 2] >>

\* subdivide, lines 164-169: the four quadrants in the order of the
\* recursive calls; hw = w / 2 and hh = h / 2
Quadrants(r) ==
  << [x |-> r.x, y |-> r.y, w |-> r.w \div 2, h |-> r.h \div 2],
     [x |-> r.x + (r.w \div 2), y |-> r.y, w |-> r.w \div 2, h |-> r.h \div 2],
     [x |-> r.x, y |-> r.y + (r.h \div 2), w |-> r.w \div 2, h |-> r.h \div 2],
     [x |-> r.x + (r.w \div 2), y |-> r.y + (r.h \div 2), w |-> r.w \div 2, h |-> r.h \div 2] >>

\* Math.min(a1, b1) - Math.max(a0, b0), lines 215-216
Overlap(a0, a1, b0, b1) ==
  (IF a1 < b1 THEN a1 ELSE b1) - (IF a0 > b0 THEN a0 ELSE b0)

\* Math.abs(u - v) <= nEps with nEps = 0.1, line 214
Near(u, v) == 10 * (IF u >= v THEN u - v ELSE v - u) <= 1

\* xOverlap > nEps, line 218
xOverlaps(a, b) == 10 * Overlap(a.x, a.x + a.w, b.x, b.x + b.w) > 1

\* yOverlap > nEps, line 222
yOverlaps(a, b) == 10 * Overlap(a.y, a.y + a.h, b.y, b.y + b.h) > 1

\* lines 217-225
isAdjacent(a, b) ==
  \/ /\ xOverlaps(a, b)
     /\ (Near(a.y, b.y) \/ Near(a.y + a.h, b.y) \/ Near(a.y, b.y + b.h))
  \/ /\ yOverlaps(a, b)
     /\ (Near(a.x, b.x) \/ Near(a.x + a.w, b.x) \/ Near(a.x, b.x + b.w))

\* lines 229-237: the side of a on which its neighbour b lies
sideOf(a, b) ==
  IF xOverlaps(a, b) THEN (IF a.y < b.y THEN "bottom" ELSE "top")
  ELSE (IF a.x < b.x THEN "right" ELSE "left")

\* lines 210-241: a.neighbors for the node numbered i, in the order of nodes
neighborsOf(nodes, i) ==
  LET others == SelectSeq([j \in 1 .. Len(nodes) |-> j],
                          LAMBDA j : j # i /\ isAdjacent(nodes[i], nodes[j]))
  IN  [k \in 1 .. Len(others) |->
         [node |-> others[k], side |-> sideOf(nodes[i], nodes[others[k]])]]

\* lines 186-208: the node of the candidates whose centre is nearest to the
\* centre line (twice the distance, |2x + w - W|), the first of them in the
\* order of nodes; the node numbered fallback when there is no candidate
nearestToCentre(nodes, candidates, width, fallback) ==
  LET dist(i) == IF (2 * nodes[i].x) + nodes[i].w >= width
                 THEN ((2 * nodes[i].x) + nodes[i].w) - width
                 ELSE width - ((2 * nodes[i].x) + nodes[i].w)
  IN  IF candidates = {} THEN fallback
      ELSE CHOOSE i \in candidates :
             \A j \in candidates : dist(i) < dist(j) \/ (dist(i) = dist(j) /\ i <= j)

\* b is a key of the connections map whose keys, in insertion order, are c
hasKey(c, b) == \E k \in 1 .. Len(c) : c[k] = b

RECURSIVE solve(_, _, _, _)
\* lines 260-276: the breadth-first search for endNode over the connections
solve(conn, endNode, queue, visited) ==
  IF queue = <<>> THEN <<>>
  ELSE IF Head(queue).node = endNode THEN Append(Head(queue).path, endNode)
  ELSE solve(conn, endNode,
             Tail(queue) \o
               [k \in 1 .. Len(SelectSeq(conn[Head(queue).node], LAMBDA n : n \notin visited)) |->
                  [node |-> SelectSeq(conn[Head(queue).node], LAMBDA n : n \notin visited)[k],
                   path |-> Append(Head(queue).path, Head(queue).node)]],
             visited \cup {n \in DOMAIN conn : hasKey(conn[Head(queue).node], n)})

\* extractWalls, lines 257-292: the wall along one side of node n
wallOf(n, side) ==
  CASE side = "top" ->
         [x1 |-> n.x, y1 |-> n.y, x2 |-> n.x + n.w, y2 |-> n.y, brightness |-> n.rawBrightness]
    [] side = "right" ->
         [x1 |-> n.x + n.w, y1 |-> n.y, x2 |-> n.x + n.w, y2 |-> n.y + n.h,
          brightness |-> n.rawBrightness]
    [] side = "bottom" ->
         [x1 |-> n.x, y1 |-> n.y + n.h, x2 |-> n.x + n.w, y2 |-> n.y + n.h,
          brightness |-> n.rawBrightness]
    [] side = "left" ->
         [x1 |-> n.x, y1 |-> n.y, x2 |-> n.x, y2 |-> n.y + n.h, brightness |-> n.rawBrightness]

\* extractWalls, lines 245-293: what one side of a node adds to walls;
\* neighbors.find gives the first neighbour on the side
sideWalls(n, neighbors, connections, side) ==
  LET onSide == SelectSeq(neighbors, LAMBDA nb : nb.side = side)
  IN  IF Len(onSide) = 0 \/ ~hasKey(connections, onSide[1].node)
      THEN << wallOf(n, side) >>
      ELSE <<>>

RECURSIVE wallsFrom(_, _)
\* extractWalls, lines 237-295: the walls pushed for the nodes from i on
wallsFrom(m, i) ==
  IF i > Len(m.nodes) THEN <<>>
  ELSE sideWalls(m.nodes[i], m.neighbors[i], m.conn[i], "top")
         \o sideWalls(m.nodes[i], m.neighbors[i], m.conn[i], "right")
         \o sideWalls(m.nodes[i], m.neighbors[i], m.conn[i], "bottom")
         \o sideWalls(m.nodes[i], m.neighbors[i], m.conn[i], "left")
         \o wallsFrom(m, i + 1)

\* A variant of the normalisation that keeps the direction of the wall.
normalizedAsGiven(wall) == wall

\* deduplicateWalls, lines 310-314: the wall from its smaller endpoint
normalized(wall) ==
  IF wall.x1 > wall.x2 \/ (wall.x1 = wall.x2 /\ wall.y1 > wall.y2)
  THEN [wall EXCEPT !.x1 = wall.x2, !.y1 = wall.y2, !.x2 = wall.x1, !.y2 = wall.y1]
  ELSE wall

\* deduplicateWalls, line 316: the key `${x1},${y1}-${x2},${y2}`; on
\* integers the string is the same exactly when the four numbers are
wallKey(wall) == <<wall.x1, wall.y1, wall.x2, wall.y2>>

RECURSIVE dedupFrom(_, _, _)
\* deduplicateWalls, lines 308-321: the loop
dedupFrom(walls, seen, unique) ==
  IF walls = <<>> THEN unique
  ELSE IF wallKey(normalized(Head(walls))) \in seen
       THEN dedupFrom(Tail(walls), seen, unique)
       ELSE dedupFrom(Tail(walls), seen \cup {wallKey(normalized(Head(walls)))},
                      Append(unique, normalized(Head(walls))))

deduplicateWalls(walls) == dedupFrom(walls, {}, <<>>)

\* extractWalls(mazeData), lines 233-299
extractWalls(m) == deduplicateWalls(wallsFrom(m, 1))

\* the images: the brightness of pixel (sx, sy) of the 256 x 256 canvas the
\* image is drawn on (lines 136-140)
Images == {"light", "dark", "cornerDark", "leftDark", "gray", "cornerBright"}

pixel(image, sx, sy) ==
  CASE image = "light" -> 255
    [] image = "dark" -> 0
    [] image = "cornerDark" -> (IF sx < 100 /\ sy < 100 THEN 0 ELSE 255)
    [] image = "leftDark" -> (IF sx < 100 THEN 0 ELSE 255)
    [] image = "gray" -> 240
    [] image = "cornerBright" -> (IF sx < 128 /\ sy < 128 THEN 255 ELSE 240)

\* getRawPixelB(gx, gy), lines 142-147, at gx = gx2 / 2 and gy = gy2 / 2
getRawPixelB(m, gx2, gy2) ==
  LET at(g2, size) == IF (g2 * 255) \div (2 * size) > 255 THEN 255
                      ELSE IF (g2 * 255) \div (2 * size) < 0 THEN 0
                      ELSE (g2 * 255) \div (2 * size)
  IN  pixel(m.image, at(gx2, m.width), at(gy2, m.height))

\* subdivide, lines 150-163: cellSize > finalThreshold for the region r,
\* with contrast 1.9, densityBias 0.2, edgeFocus 2.7 and invert off (lines
\* 38-42).  b10 is ten times the contrasted brightness, and
\* finalThreshold = (9 * bMid10 - 81 * edge10) / 2550.
aboveThreshold(m, r) ==
  LET b10(raw) == (19 * (raw - 128)) + 1280
      edge10(tl, br) == IF tl >= br THEN tl - br ELSE br - tl
  IN  2550 * (IF r.w < r.h THEN r.w ELSE r.h)
        > (9 * b10(getRawPixelB(m, (2 * r.x) + r.w, (2 * r.y) + r.h)))
            - (81 * edge10(b10(getRawPixelB(m, 2 * r.x, 2 * r.y)),
                           b10(getRawPixelB(m, 2 * (r.x + r.w), 2 * (r.y + r.h)))))

\* the leaf subdivide pushes for the region r
leafOf(m, r) ==
  [x |-> r.x, y |-> r.y, w |-> r.w, h |-> r.h,
   rawBrightness |-> getRawPixelB(m, (2 * r.x) + r.w, (2 * r.y) + r.h)]

\* A variant of subdivide that splits by the threshold alone.
subdivideByThreshold(m) ==
  LET r == Head(m.todo)
  IN  IF aboveThreshold(m, r)
      THEN [m EXCEPT !.todo = Quadrants(r) \o Tail(m.todo)]
      ELSE [m EXCEPT !.todo = Tail(m.todo), !.nodes = Append(@, leafOf(m, r))]

\* subdivide(x, y, w, h), lines 149-183: one call, for the first of the
\* regions m.todo still to do, with its recursive calls put in front of the
\* others in their order
subdivide(m) ==
  LET r == Head(m.todo)
      cellSize == IF r.w < r.h THEN r.w ELSE r.h
  IN  IF cellSize > m.minCellSize /\ aboveThreshold(m, r)
      THEN [m EXCEPT !.todo = Quadrants(r) \o Tail(m.todo)]
      ELSE [m EXCEPT !.todo = Tail(m.todo), !.nodes = Append(@, leafOf(m, r))]

RECURSIVE subdivideAll(_)
\* line 184: subdivide(0, 0, mazeWidth, mazeHeight) run to its return
subdivideAll(m) == IF m.todo = <<>> THEN m ELSE subdivideAll(subdivide(m))

\* ------------------------------------------------------------------------
\* estimatePlotTime (src/src/axidraw/job.ts, lines 405-445).  The inputs are
\* lists of segments all of whose distances are whole numbers, and a time
\* is the exact fraction <<numerator, denominator>> of seconds where the
\* code has a double.
\* ------------------------------------------------------------------------

\* Math.hypot(dx, dy), for a whole-number distance
hypot(dx, dy) == CHOOSE r \in 0 .. ((dx * dx) + (dy * dy)) : r * r = (dx * dx) + (dy * dy)

\* A variant of the loop that counts one pen move for a reposition.
RECURSIVE estimateOnePenMove(_, _, _, _, _, _)
estimateOnePenMove(segments, i, lastX, lastY, totalSteps, penMoves) ==
  IF i > Len(segments) THEN [totalSteps |-> totalSteps, penMoves |-> penMoves]
  ELSE LET seg == segments[i]
           needsReposition == seg.x1 # lastX \/ seg.y1 # lastY
       IN  estimateOnePenMove(segments, i + 1, seg.x2, seg.y2,
                        totalSteps
                          + (IF needsReposition THEN hypot(seg.x1 - lastX, seg.y1 - lastY) ELSE 0)
                          + hypot(seg.x2 - seg.x1, seg.y2 - seg.y1),
                        penMoves + (IF needsReposition THEN 1 ELSE 0))

RECURSIVE estimateLoop(_, _, _, _, _, _)
\* lines 419-432: the loop over the segments, from segment i on
estimateLoop(segments, i, lastX, lastY, totalSteps, penMoves) ==
  IF i > Len(segments) THEN [totalSteps |-> totalSteps, penMoves |-> penMoves]
  ELSE LET seg == segments[i]
           needsReposition == seg.x1 # lastX \/ seg.y1 # lastY
       IN  estimateLoop(segments, i + 1, seg.x2, seg.y2,
                        totalSteps
                          + (IF needsReposition THEN hypot(seg.x1 - lastX, seg.y1 - lastY) ELSE 0)
                          + hypot(seg.x2 - seg.x1, seg.y2 - seg.y1),
                        penMoves + (IF needsReposition THEN 2 ELSE 0))

\* estimatePlotTime(segments, speedPercent): totalSteps / stepRate +
\* penMoves * 0.3 as the fraction (10 * totalSteps + 3 * penMoves *
\* stepRate) / (10 * stepRate), with stepRate = 200 + 18 * speedPercent
estimatePlotTime(segments, speedPercent) ==
  IF Len(segments) = 0 THEN <<0, 1>>
  ELSE LET stepRate == 200 + (18 * speedPercent)
           sums == estimateLoop(segments, 1, 0, 0, 0, 0)
           penMoves == sums.penMoves
                         + (IF segments[1].x1 = 0 /\ segments[1].y1 = 0 THEN 1 ELSE 0)
       IN  <<(10 * sums.totalSteps) + (3 * penMoves * stepRate), 10 * stepRate>>

\* ------------------------------------------------------------------------
\* sendCommand (src/src/maze/MazeGenerator.ts, lines 384-424).  Text is a
\* sequence of characters, "CR" and "LF" for \r and \n; times are in
\* milliseconds.
\* ------------------------------------------------------------------------

\* text.includes('OK')
includesOK(text) == \E k \in 1 .. (Len(text) - 1) : text[k] = "O" /\ text[k + 1] = "K"

\* text.includes('\r')
includesCR(text) == \E k \in 1 .. Len(text) : text[k] = "CR"

RECURSIVE trim(_)
\* text.trim()
trim(text) ==
  IF text = <<>> THEN text
  ELSE IF Head(text) \in {"CR", "LF"} THEN trim(Tail(text))
  ELSE IF text[Len(text)] \in {"CR", "LF"} THEN trim(SubSeq(text, 1, Len(text) - 1))
  ELSE text

\* line 423: return response.trim()
Returns(c) == [c EXCEPT !.phase = "returned", !.result = trim(c.response)]

\* A variant of the loop test that throws when the timeout has passed.
NextPollOrThrow(c) ==
  IF c.elapsed < c.timeout THEN [c EXCEPT !.waited = 0]
  ELSE [c EXCEPT !.phase = "threw", !.error = "timeout"]

\* line 399: the loop test, then the next race of read() against the
\* 100 ms timer, or the return on timeout
NextPoll(c) ==
  IF c.elapsed < c.timeout THEN [c EXCEPT !.waited = 0]
  ELSE Returns(c)

\* ------------------------------------------------------------------------
\* State
\* ------------------------------------------------------------------------

VARIABLES
  \* generateMaze: the inputs of the call
  densityMap, seed, params,
  \* generateMaze: the running call (its phase, grid, active list, the
  \* state of its SeededRandom, the loop position of the current pass), the
  \* number of calls made and the grid the previous call returned
  phase, cells, active, rng, cursor, calls, firstGrid,
  \* path ordering: the input list, the function applied and its result
  pathIn, pathOp, pathOut,
  \* the Plotter object, its EBB object, the device behind the port, the
  \* running calls of asynchronous Plotter methods, the last command
  \* written to the port, the tasks awaiting the pause promise and the last
  \* call that returned
  plotter, ebb, device, tasks, sent, waiters, returned,
  \* the number of asynchronous Plotter methods called so far
  callsMade,
  \* the last status that the progress callback given to plot() received
  observed,
  \* the quadtree variant: mazeData with the state of the running
  \* generateMaze call, and the walls extracted from it
  mazeData,
  \* the running sendCommand call: its position, its clock and the
  \* response text read so far
  cmd,
  \* a call of getDensity or of estimatePlotTime: the function, its
  \* arguments and the value it returned
  query

mazeVars == <<densityMap, seed, params, phase, cells, active, rng, cursor, calls, firstGrid>>

pathVars == <<pathIn, pathOp, pathOut>>

plotVars == <<plotter, ebb, device, tasks, sent, waiters, returned, callsMade, observed>>

vars == <<mazeVars, pathVars, plotVars, mazeData, cmd, query>>

\* the variables outside each part
notMaze == <<pathVars, plotVars, mazeData, cmd, query>>
notPath == <<mazeVars, plotVars, mazeData, cmd, query>>
notPlot == <<mazeVars, pathVars, mazeData, cmd, query>>

MaxTasks == 2
MaxCalls == 3

\* mazeData before the first generateMaze call (part_002), with the fields
\* of the call: the regions still to subdivide, the stack of the carving
\* loop, and the results of extractWalls
QuadIdle ==
  mazeData = [phase |-> "idle", image |-> "light", width |-> 0, height |-> 0, minCellSize |-> 0,
              todo |-> <<>>, nodes |-> <<>>, startNode |-> 0, endNode |-> 0,
              neighbors |-> <<>>, visited |-> {}, stack |-> <<>>, conn |-> <<>>,
              solution |-> <<>>, walls |-> <<>>, firstWalls |-> <<>>, extractions |-> 0]

\* no sendCommand call has been made; stale counts the reads of the port
\* that earlier polls have left pending
CmdIdle ==
  cmd = [phase |-> "idle", timeout |-> 0, elapsed |-> 0, waited |-> 0, response |-> <<>>,
         chunks |-> 0, stale |-> 0, sends |-> 0, result |-> <<>>, error |-> "none"]

\* neither getDensity nor estimatePlotTime has been called
QueryIdle == query = [op |-> "none", args |-> <<>>, result |-> <<>>]

\* the progress callback has received nothing yet
NoStatus == [state |-> "none", progress |-> 0, currentSegment |-> 0, totalSegments |-> 0]

\* new EBB(conn, config), lines 49-58
NewEBB ==
  [currentPenUp |-> TRUE, currentPenHeight |-> penUpPosition, currentX |-> 0, currentY |-> 0]

\* new Plotter(), lines 65-77, before any connection is opened
PlotterIdle ==
  /\ plotter = [state |-> "disconnected", hasEbb |-> FALSE, hasConn |-> FALSE,
                abortController |-> "null", pausePromise |-> "null",
                onStatusChange |-> "null",
                progress |-> [current |-> 0, total |-> 0]]
  /\ ebb = NewEBB
  /\ device = [open |-> FALSE, penDown |-> FALSE]
  /\ tasks = [t \in 1 .. MaxTasks |-> IdleTask]
  /\ sent = <<>>
  /\ waiters = <<>>
  /\ returned = [op |-> "none", result |-> "none"]
  /\ callsMade = 0
  /\ observed = NoStatus

\* no generateMaze call is made
MazeIdle ==
  /\ densityMap = [width |-> 0, height |-> 0, cells |-> <<>>]
  /\ seed = 0
  /\ params = [wallRemovalStrength |-> 0, extraWallsStrength |-> 0]
  /\ phase = "idle"
  /\ cells = <<>>
  /\ active = <<>>
  /\ rng = <<0, 0>>
  /\ cursor = 0
  /\ calls = 0
  /\ firstGrid = <<>>

\* no list is being ordered
PathIdle ==
  /\ pathIn = <<>>
  /\ pathOp = "none"
  /\ pathOut = <<>>

\* ------------------------------------------------------------------------
\* generateMaze as a state machine: one action per loop iteration
\* ------------------------------------------------------------------------

MazeCalls == 2

Fields == {"light", "dark", "split", "checker"}

\* the density, in quarters, that a field puts at (x, y) of a w-wide grid
FieldAt(f, x, y, w) ==
  CASE f = "light" -> 0
    [] f = "dark" -> 4
    [] f = "split" -> IF 2 * x < w THEN 0 ELSE 4
    [] OTHER -> IF ((x + y) % 2) = 0 THEN 1 ELSE 3

DensityMaps ==
  { [width |-> w, height |-> h,
     cells |-> [i \in 1 .. (w * h) |-> FieldAt(f, (i - 1) % w, (i - 1) \div w, w)]] :
    w \in 1 .. MaxWidth, h \in 1 .. MaxHeight, f \in Fields }

\* wallRemovalStrength and extraWallsStrength, in halves
Strengths == {<<0, 0>>, <<2, 0>>, <<0, 2>>, <<2, 2>>, <<1, 1>>}

Width == densityMap.width
Height == densityMap.height
entranceX == Width \div 2
exitX == Width \div 2

Positions(w, h) == (0 .. (w - 1)) \X (0 .. (h - 1))

InteriorCount == IF Width > 2 /\ Height > 2 THEN (Width - 2) * (Height - 2) ELSE 0

\* the phase that follows the light-area pass
AfterLight == IF InteriorCount = 0 THEN "open" ELSE "dark"

InitMaze ==
  /\ densityMap \in DensityMaps
  /\ seed \in 0 .. MaxSeed
  /\ params \in {[wallRemovalStrength |-> s[1], extraWallsStrength |-> s[2]] : s \in Strengths}
  /\ phase = "idle"
  /\ cells = <<>>
  /\ active = <<>>
  /\ rng = <<0, 0>>
  /\ cursor = 0
  /\ calls = 0
  /\ firstGrid = <<>>
  /\ PathIdle
  /\ PlotterIdle
  /\ QuadIdle
  /\ CmdIdle
  /\ QueryIdle

\* A variant of generateMaze that draws from one generator shared by all
\* calls instead of seeding its own.
GenerateMazeSharedRng ==
  /\ phase \in {"idle", "done"}
  /\ calls < MazeCalls
  /\ calls' = calls + 1
  /\ firstGrid' = cells
  /\ rng' = rng
  /\ cells' = [[p \in Positions(Width, Height) |-> createCell(getDensity(densityMap, p[1], p[2]))]
                 EXCEPT ![<<entranceX, 0>>].visited = TRUE]
  /\ active' = << <<entranceX, 0>> >>
  /\ phase' = "base"
  /\ cursor' = 0
  /\ UNCHANGED <<densityMap, seed, params>>
  /\ UNCHANGED notMaze

\* generateMaze, lines 43-67 and 89-92: a call starts with a fresh
\* generator and grid, and the entrance cell visited and active
GenerateMaze ==
  /\ phase \in {"idle", "done"}
  /\ calls < MazeCalls
  /\ calls' = calls + 1
  /\ firstGrid' = cells
  /\ rng' = SeededRandom(seed)
  /\ cells' = [[p \in Positions(Width, Height) |-> createCell(getDensity(densityMap, p[1], p[2]))]
                 EXCEPT ![<<entranceX, 0>>].visited = TRUE]
  /\ active' = << <<entranceX, 0>> >>
  /\ phase' = "base"
  /\ cursor' = 0
  /\ UNCHANGED <<densityMap, seed, params>>
  /\ UNCHANGED notMaze

\* A variant of the loop iteration that does not mark the chosen cell.
BaseMazeStepUnmarked ==
  /\ phase = "base"
  /\ LET r1 == RngNext(rng)
         newest == DrawBelow(r1.u, 3, 4)
         r2 == IF newest THEN r1 ELSE RngNext(r1.state)
         index == IF newest THEN Len(active) ELSE NextInt(r2.u, Len(active)) + 1
         current == active[index]
         neighbors == UnvisitedNeighbors(cells, current, Width, Height)
         r3 == RngNext(r2.state)
         weights == [i \in 1 .. Len(neighbors) |-> Weight40(cells[neighbors[i].cell].density)]
         chosen == weightedPick(r3.u, neighbors, weights)
     IN  IF Len(neighbors) > 0
         THEN /\ cells' = removeWall(cells, current, chosen.cell, chosen.dir)
              /\ active' = Append(active, chosen.cell)
              /\ rng' = r3.state
              /\ phase' = "base"
         ELSE /\ cells' = cells
              /\ active' = RemoveAt(active, index)
              /\ rng' = r2.state
              /\ phase' = IF Len(active) = 1 THEN "light" ELSE "base"
  /\ cursor' = 0
  /\ UNCHANGED <<densityMap, seed, params, calls, firstGrid>>
  /\ UNCHANGED notMaze

\* generateBaseMaze, lines 94-122: one iteration of the growing-tree loop
BaseMazeStep ==
  /\ phase = "base"
  /\ LET r1 == RngNext(rng)
         newest == DrawBelow(r1.u, 3, 4)
         r2 == IF newest THEN r1 ELSE RngNext(r1.state)
         index == IF newest THEN Len(active) ELSE NextInt(r2.u, Len(active)) + 1
         current == active[index]
         neighbors == UnvisitedNeighbors(cells, current, Width, Height)
         r3 == RngNext(r2.state)
         weights == [i \in 1 .. Len(neighbors) |-> Weight40(cells[neighbors[i].cell].density)]
         chosen == weightedPick(r3.u, neighbors, weights)
     IN  IF Len(neighbors) > 0
         THEN /\ cells' = [removeWall(cells, current, chosen.cell, chosen.dir)
                             EXCEPT ![chosen.cell].visited = TRUE]
              /\ active' = Append(active, chosen.cell)
              /\ rng' = r3.state
              /\ phase' = "base"
         ELSE /\ cells' = cells
              /\ active' = RemoveAt(active, index)
              /\ rng' = r2.state
              /\ phase' = IF Len(active) = 1 THEN "light" ELSE "base"
  /\ cursor' = 0
  /\ UNCHANGED <<densityMap, seed, params, calls, firstGrid>>
  /\ UNCHANGED notMaze

\* removeWallsInLightAreas, lines 135-168: the loop body for one cell
LightAreaStep ==
  /\ phase = "light"
  /\ LET p == <<cursor % Width, cursor \div Width>>
         r == LightCell(cells, rng, p, params.wallRemovalStrength, Width, Height)
     IN  /\ cells' = r.cells
         /\ rng' = r.state
  /\ IF cursor + 1 < Width * Height
     THEN /\ cursor' = cursor + 1
          /\ phase' = "light"
     ELSE /\ cursor' = 0
          /\ phase' = AfterLight
  /\ UNCHANGED <<densityMap, seed, params, active, calls, firstGrid>>
  /\ UNCHANGED notMaze

\* addExtraComplexity, lines 224-258: the loop body for one interior cell
ExtraComplexityStep ==
  /\ phase = "dark"
  /\ LET p == <<1 + (cursor % (Width - 2)), 1 + (cursor \div (Width - 2))>>
         r == DarkCell(cells, rng, p, params.extraWallsStrength, Width, Height)
     IN  /\ cells' = r.cells
         /\ rng' = r.state
  /\ IF cursor + 1 < InteriorCount
     THEN /\ cursor' = cursor + 1
          /\ phase' = "dark"
     ELSE /\ cursor' = 0
          /\ phase' = "open"
  /\ UNCHANGED <<densityMap, seed, params, active, calls, firstGrid>>
  /\ UNCHANGED notMaze

\* A variant of the last step that opens the entrance only.
OpenEntranceOnly ==
  /\ phase = "open"
  /\ cells' = [cells EXCEPT ![<<entranceX, 0>>].walls.north = FALSE]
  /\ phase' = "done"
  /\ UNCHANGED <<densityMap, seed, params, active, rng, cursor, calls, firstGrid>>
  /\ UNCHANGED notMaze

\* generateMaze, lines 75-79: open the entrance and the exit, return
OpenEntranceExit ==
  /\ phase = "open"
  /\ cells' = [cells EXCEPT ![<<entranceX, 0>>].walls.north = FALSE,
                            ![<<exitX, Height - 1>>].walls.south = FALSE]
  /\ phase' = "done"
  /\ UNCHANGED <<densityMap, seed, params, active, rng, cursor, calls, firstGrid>>
  /\ UNCHANGED notMaze

NextMaze ==
  \/ GenerateMaze
  \/ BaseMazeStep
  \/ LightAreaStep
  \/ ExtraComplexityStep
  \/ OpenEntranceExit

SpecMaze == InitMaze /\ [][NextMaze]_vars

\* ------------------------------------------------------------------------
\* Path ordering as a state machine: either function applied to a list
\* ------------------------------------------------------------------------

MaxSegments == 3

\* endpoints in steps
PathPoints == {<<0, 0>>, <<1, 0>>, <<0, 2>>}

\* penDownDark and penDownLight of the default configuration
PenHeights == {25, 45}

PathSegments ==
  {[x1 |-> p[1], y1 |-> p[2], x2 |-> q[1], y2 |-> q[2], penHeight |-> h] :
     p \in PathPoints, q \in PathPoints, h \in PenHeights}

\* the segments that join the three points to a junction at a fourth one,
\* in either direction
Junction == <<1, 2>>

Spokes ==
  {[x1 |-> p[1], y1 |-> p[2], x2 |-> Junction[1], y2 |-> Junction[2], penHeight |-> 45] :
     p \in PathPoints}
    \cup {[x1 |-> Junction[1], y1 |-> Junction[2], x2 |-> p[1], y2 |-> p[2], penHeight |-> 45] :
            p \in PathPoints}

\* the lists given to the functions: every list over the three points, and
\* the full-length lists of spokes
SegmentLists ==
  UNION {[1 .. n -> PathSegments] : n \in 0 .. MaxSegments} \cup [1 .. MaxSegments -> Spokes]

InitPath ==
  /\ pathIn \in SegmentLists
  /\ pathOp = "none"
  /\ pathOut = <<>>
  /\ MazeIdle
  /\ PlotterIdle
  /\ QuadIdle
  /\ CmdIdle
  /\ QueryIdle

OptimizePath ==
  /\ pathOp' = "optimizePath"
  /\ pathOut' = optimizePath(pathIn)
  /\ UNCHANGED pathIn
  /\ UNCHANGED notPath

StitchSegmentsIntoChains ==
  /\ pathOp' = "stitchSegmentsIntoChains"
  /\ pathOut' = stitchSegmentsIntoChains(pathIn)
  /\ UNCHANGED pathIn
  /\ UNCHANGED notPath

NextPath ==
  \/ OptimizePath
  \/ StitchSegmentsIntoChains

SpecPath == InitPath /\ [][NextPath]_vars

\* ------------------------------------------------------------------------
\* The plotter bridge as a state machine: one action per Plotter method
\* called, per answer of the device and per timer
\* ------------------------------------------------------------------------

\* the world a step starts from: nothing written and nothing returned yet
\* in this step
NoReturn == [op |-> "none", result |-> "none"]

World ==
  [plotter |-> plotter, ebb |-> ebb, device |-> device, tasks |-> tasks, sent |-> <<>>,
   waiters |-> waiters, returned |-> NoReturn, observed |-> observed]

\* one more asynchronous method is called
Called ==
  /\ callsMade < MaxCalls
  /\ callsMade' = callsMade + 1

Becomes(w) ==
  /\ plotter' = w.plotter
  /\ ebb' = w.ebb
  /\ device' = w.device
  /\ tasks' = w.tasks
  /\ sent' = w.sent
  /\ waiters' = w.waiters
  /\ returned' = w.returned
  /\ observed' = w.observed

Tasks == 1 .. MaxTasks

\* the slot a new call takes: the lowest one that holds no running call
Free(t) == tasks[t].op = "none" /\ \A u \in 1 .. (t - 1) : tasks[u].op # "none"

\* the method throws 'Not connected' or 'Already plotting' before it awaits
Throws(op, error) ==
  /\ returned' = [op |-> op, result |-> error]
  /\ sent' = <<>>
  /\ UNCHANGED <<plotter, ebb, device, tasks, waiters, observed>>

InitPlot ==
  /\ PlotterIdle
  /\ MazeIdle
  /\ PathIdle
  /\ QuadIdle
  /\ CmdIdle
  /\ QueryIdle

\* connect(conn), lines 82-99, on a freshly opened connection; called while
\* the Plotter has no EBB and no call is running
Connect ==
  /\ Called
  /\ ~plotter.hasEbb
  /\ \A t \in Tasks : tasks[t].op = "none"
  /\ Becomes(StartTask([World EXCEPT !.plotter.hasEbb = TRUE, !.plotter.hasConn = TRUE,
                                      !.ebb = NewEBB, !.device.open = TRUE],
                        1, "connect", 0,
                        << SendCmd("V", "setup"),
                           Deref, SendCmd("SC4", "setup"), SendCmd("SC5", "setup"),
                           SendCmd("SC10", "setup"),
                           Deref, SendCmd("EM1", "setup"),
                           Deref, Pen(penUpPosition),
                           Todo("state", "connected", "", 0, 0, 0) >>))
  /\ UNCHANGED notPlot

\* disconnect(), lines 104-121
Disconnect ==
  /\ Called
  /\ IF plotter.hasEbb
     THEN \E t \in Tasks :
            /\ Free(t)
            /\ Becomes(StartTask(World, t, "disconnect", 0,
                                  << SendCmd("EM0", "off"),
                                     Todo("ebbnull", "", "", 0, 0, 0),
                                     Todo("close", "", "", 0, 0, 0),
                                     Todo("closed", "", "", 0, 0, 0) >>))
     ELSE Becomes([notifyStatus([World EXCEPT !.plotter.hasConn = FALSE,
                                                !.plotter.state = "disconnected"])
                      EXCEPT !.returned = [op |-> "disconnect", result |-> "resolved"]])
  /\ UNCHANGED notPlot

\* plot(segments), lines 189-204, up to its first await
Plot ==
  /\ Called
  /\ IF ~plotter.hasEbb THEN Throws("plot", "Not connected")
     ELSE IF plotter.state = "plotting" THEN Throws("plot", "Already plotting")
     ELSE \E t \in Tasks, job \in 1 .. Len(PlotJobs) :
            /\ Free(t)
            /\ Becomes(StartTask(notifyStatus(
                                    [World EXCEPT !.plotter.onStatusChange = "set",
                                                  !.plotter.abortController = "clear",
                                                  !.plotter.state = "plotting",
                                                  !.plotter.progress =
                                                     [current |-> 0, total |-> Len(PlotJobs[job])]]),
                                  t, "plot", job,
                                  << Pen(penUpPosition), Todo("loop", "", "", 1, 0, 0),
                                     Deref, Home, Todo("finally", "", "", 0, 0, 0) >>))
  /\ UNCHANGED notPlot

\* the tasks, with the mark field of every running plot() call set to v
OnPlots(ts, field, v) ==
  [t \in DOMAIN ts |-> IF ts[t].op = "plot" THEN [ts[t] EXCEPT ![field] = v] ELSE ts[t]]

\* the tasks in ts wait on a promise that nothing resolves any more
Orphaned(ts, ws) ==
  [t \in DOMAIN ts |-> IF \E j \in 1 .. Len(ws) : ws[j] = t
                        THEN [ts[t] EXCEPT !.wait = "forever"] ELSE ts[t]]

\* pause(), lines 246-253
Pause ==
  /\ plotter.state = "plotting"
  /\ Becomes(notifyStatus([World EXCEPT !.plotter.state = "paused",
                                         !.plotter.pausePromise = "pending",
                                         !.tasks = OnPlots(Orphaned(tasks, waiters), "held", TRUE),
                                         !.waiters = <<>>]))
  /\ UNCHANGED callsMade
  /\ UNCHANGED notPlot

\* the promise held in pauseResolve is resolved
Resolved(w) ==
  IF w.plotter.pausePromise = "pending"
  THEN Wake([w EXCEPT !.plotter.pausePromise = "resolved", !.waiters = <<>>], w.waiters)
  ELSE w

\* resume(), lines 258-267
Resume ==
  /\ plotter.state = "paused"
  /\ Becomes([Resolved(notifyStatus([World EXCEPT !.plotter.state = "plotting",
                                                   !.tasks = OnPlots(tasks, "held", FALSE)]))
                 EXCEPT !.plotter.pausePromise = "null"])
  /\ UNCHANGED callsMade
  /\ UNCHANGED notPlot

\* stop(), lines 272-281
Stop ==
  /\ Becomes(Resolved(notifyStatus([World EXCEPT !.plotter.abortController =
                                                     IF @ = "null" THEN "null" ELSE "aborted",
                                                  !.plotter.state = "connected",
                                                  !.tasks = OnPlots(tasks, "stopped", TRUE)])))
  /\ UNCHANGED callsMade
  /\ UNCHANGED notPlot

\* a method that checks this.ebb and then runs the steps q
TestCall(op, q) ==
  IF ~plotter.hasEbb THEN Throws(op, "Not connected")
  ELSE \E t \in Tasks : Free(t) /\ Becomes(StartTask(World, t, op, 0, q))

\* testPenHeight(height), lines 287-290; testPenUp() is the call with
\* penUpPosition and testPenDown(height) has the same body
TestPenHeight ==
  /\ Called
  /\ \E h \in {penUpPosition, 25} : TestCall("testPenHeight", << Pen(h) >>)
  /\ UNCHANGED notPlot

\* goHome(), lines 380-383
GoHome ==
  /\ Called
  /\ TestCall("goHome", << Home >>)
  /\ UNCHANGED notPlot

\* testBounds(), lines 354-375, with the default margins and plot area
TestBounds ==
  /\ Called
  /\ TestCall("testBounds",
       << Pen(penUpPosition),
          Deref, MoveTo(10 * STEPS_PER_MM, 10 * STEPS_PER_MM, "test"),
          Deref, MoveTo(142 * STEPS_PER_MM, 10 * STEPS_PER_MM, "test"),
          Deref, MoveTo(142 * STEPS_PER_MM, 142 * STEPS_PER_MM, "test"),
          Deref, MoveTo(10 * STEPS_PER_MM, 142 * STEPS_PER_MM, "test"),
          Deref, MoveTo(10 * STEPS_PER_MM, 10 * STEPS_PER_MM, "test"),
          Deref, Home >>)
  /\ UNCHANGED notPlot

\* drawTestPattern, lines 327-344: line number i of the pattern, drawn with
\* Math.round(45 - (i / 4) * 20) = 45 - 5 * i
PatternLine(i) ==
  << Deref, MoveTo(20 * STEPS_PER_MM, (20 + (8 * i)) * STEPS_PER_MM, "test"),
     Deref, Pen(45 - (5 * i)),
     Deref, MoveTo(50 * STEPS_PER_MM, (20 + (8 * i)) * STEPS_PER_MM, "test"),
     Deref, Pen(penUpPosition) >>

\* drawTestPattern(45, 25), lines 313-348
DrawTestPattern ==
  /\ Called
  /\ TestCall("drawTestPattern",
       << Pen(penUpPosition) >> \o PatternLine(0) \o PatternLine(1) \o PatternLine(2)
         \o PatternLine(3) \o PatternLine(4) \o << Deref, Home >>)
  /\ UNCHANGED notPlot

\* sendCommand, lines 399-423: the answer to the command arrives, or the
\* read loop times out; either way the call returns
Ack ==
  /\ \E t \in Tasks : tasks[t].wait = "ack" /\ Becomes(Continue(World, t))
  /\ UNCHANGED callsMade
  /\ UNCHANGED notPlot

\* sendCommand: the read from the port throws
CommandThrows ==
  /\ \E t \in Tasks : tasks[t].wait = "ack" /\ Becomes(Fail(World, t, DeviceError))
  /\ UNCHANGED callsMade
  /\ UNCHANGED notPlot

\* EBB.delay, lines 297-299: the timer of a motion fires; port.close()
\* completes
DelayDone ==
  /\ \E t \in Tasks : tasks[t].wait \in {"delay", "close"} /\ Becomes(Continue(World, t))
  /\ UNCHANGED callsMade
  /\ UNCHANGED notPlot

NextPlot ==
  \/ Connect
  \/ Disconnect
  \/ Plot
  \/ Pause
  \/ Resume
  \/ Stop
  \/ TestPenHeight
  \/ GoHome
  \/ TestBounds
  \/ DrawTestPattern
  \/ Ack
  \/ CommandThrows
  \/ DelayDone

SpecPlot == InitPlot /\ [][NextPlot]_vars

\* ------------------------------------------------------------------------
\* The quadtree variant as a state machine: the steps of one generateMaze
\* call (part_002, lines 115-283), then extractWalls on its mazeData; or a
\* call of deduplicateWalls on a list of walls
\* ------------------------------------------------------------------------

\* mazeWidth and mazeHeight (lines 122-132) and params.minCellSize: sizes
\* that halve without remainder down to the leaves, as w / 2 does
MazeSizes == {8, 12}
MinCellSizes == {4, 8}

MaxExtractions == 2

notQuad == <<mazeVars, pathVars, plotVars, cmd, query>>

InitQuad ==
  /\ QuadIdle
  /\ CmdIdle
  /\ QueryIdle
  /\ MazeIdle
  /\ PathIdle
  /\ PlotterIdle

\* generateMaze, lines 115-134 and 184: the call subdivide(0, 0, mazeWidth,
\* mazeHeight) is made
GenerateQuadtree ==
  /\ mazeData.phase = "idle"
  /\ \E image \in Images, width \in MazeSizes, height \in MazeSizes, minCellSize \in MinCellSizes :
       mazeData' = [mazeData EXCEPT !.phase = "subdivide", !.image = image,
                                    !.width = width, !.height = height,
                                    !.minCellSize = minCellSize,
                                    !.todo = << [x |-> 0, y |-> 0, w |-> width, h |-> height] >>]
  /\ UNCHANGED notQuad

\* subdivide(x, y, w, h), lines 149-183: one call, with its recursive calls
\* left to do in their order
Subdivide ==
  /\ mazeData.phase = "subdivide"
  /\ mazeData.todo # <<>>
  /\ mazeData' = subdivide(mazeData)
  /\ UNCHANGED notQuad

\* lines 186-244: startNode and endNode are chosen (edgeEps = 1.0), the
\* neighbors lists are built and the carving starts at startNode
FindNeighbors ==
  /\ mazeData.phase = "subdivide"
  /\ mazeData.todo = <<>>
  /\ LET nodes == mazeData.nodes
         start == nearestToCentre(nodes, {i \in 1 .. Len(nodes) : nodes[i].y < 1},
                                  mazeData.width, 1)
     IN  mazeData' =
           [mazeData EXCEPT
              !.phase = "carve",
              !.startNode = start,
              !.endNode = nearestToCentre(nodes,
                            {i \in 1 .. Len(nodes) : nodes[i].y + nodes[i].h > mazeData.height - 1},
                            mazeData.width, Len(nodes)),
              !.neighbors = [i \in 1 .. Len(nodes) |-> neighborsOf(nodes, i)],
              !.conn = [i \in 1 .. Len(nodes) |-> <<>>],
              !.stack = << start >>,
              !.visited = {start}]
  /\ UNCHANGED notQuad

\* A variant of the carving step that records the passage at curr only.
CarveOneWay ==
  /\ mazeData.phase = "carve"
  /\ mazeData.stack # <<>>
  /\ LET curr == mazeData.stack[Len(mazeData.stack)]
         unvisited == SelectSeq(mazeData.neighbors[curr], LAMBDA n : n.node \notin mazeData.visited)
     IN  IF Len(unvisited) > 0
         THEN \E k \in 1 .. Len(unvisited) :
                mazeData' = [mazeData EXCEPT
                               !.visited = @ \cup {unvisited[k].node},
                               !.conn[curr] = Append(@, unvisited[k].node),
                               !.stack = Append(@, unvisited[k].node)]
         ELSE mazeData' = [mazeData EXCEPT !.stack = SubSeq(@, 1, Len(@) - 1)]
  /\ UNCHANGED notQuad

\* lines 245-258: one iteration of the carving loop; Math.random() picks any
\* of the unvisited neighbours
CarveStep ==
  /\ mazeData.phase = "carve"
  /\ mazeData.stack # <<>>
  /\ LET curr == mazeData.stack[Len(mazeData.stack)]
         unvisited == SelectSeq(mazeData.neighbors[curr], LAMBDA n : n.node \notin mazeData.visited)
     IN  IF Len(unvisited) > 0
         THEN \E k \in 1 .. Len(unvisited) :
                mazeData' = [mazeData EXCEPT
                               !.visited = @ \cup {unvisited[k].node},
                               !.conn[curr] = Append(@, unvisited[k].node),
                               !.conn[unvisited[k].node] = Append(@, curr),
                               !.stack = Append(@, unvisited[k].node)]
         ELSE mazeData' = [mazeData EXCEPT !.stack = SubSeq(@, 1, Len(@) - 1)]
  /\ UNCHANGED notQuad

\* lines 260-281: the solution is searched and mazeData.current is set
Solve ==
  /\ mazeData.phase = "carve"
  /\ mazeData.stack = <<>>
  /\ mazeData' = [mazeData EXCEPT
                    !.phase = "done",
                    !.solution = solve(mazeData.conn, mazeData.endNode,
                                       << [node |-> mazeData.startNode, path |-> <<>>] >>,
                                       {mazeData.startNode})]
  /\ UNCHANGED notQuad

\* generatePlotJob, line 63: extractWalls(mazeData)
ExtractWalls ==
  /\ mazeData.phase = "done"
  /\ mazeData.extractions < MaxExtractions
  /\ mazeData' = [mazeData EXCEPT
                    !.walls = extractWalls(mazeData),
                    !.firstWalls = IF mazeData.extractions = 0 THEN extractWalls(mazeData) ELSE @,
                    !.extractions = @ + 1]
  /\ UNCHANGED notQuad

\* deduplicateWalls(walls), lines 304-324, called on a list of walls
DeduplicateWalls ==
  /\ mazeData.phase = "idle"
  /\ \E walls \in SegmentLists :
       /\ pathIn' = walls
       /\ pathOut' = deduplicateWalls(walls)
  /\ pathOp' = "deduplicateWalls"
  /\ mazeData' = [mazeData EXCEPT !.phase = "deduplicated"]
  /\ UNCHANGED <<mazeVars, plotVars, cmd, query>>

NextQuad ==
  \/ GenerateQuadtree
  \/ Subdivide
  \/ FindNeighbors
  \/ CarveStep
  \/ Solve
  \/ ExtractWalls
  \/ DeduplicateWalls

SpecQuad == InitQuad /\ [][NextQuad]_vars

\* ------------------------------------------------------------------------
\* The serial command exchange (SpecSend): sendCommand of
\* src/src/maze/MazeGenerator.ts, lines 384-424, against a device that
\* answers in chunks, late, or not at all.
\* ------------------------------------------------------------------------

\* the timeouts passed by the callers, in milliseconds
Timeouts == {150, 200, 300}

\* line 403: the timer each read is raced against
PollInterval == 100

\* the steps in which time passes
Delays == {50}

\* the chunks the port delivers
Chunks ==
  { <<"O", "K", "CR", "LF">>, <<"O">>, <<"K", "CR", "LF">>,
    <<"1", "CR", "LF">>, <<"1">>, <<"CR">> }

\* chunks delivered during one call
MaxChunks == 2

\* sendCommand calls on one connection
MaxSends == 2

notSend == <<mazeVars, pathVars, plotVars, mazeData, query>>

InitSend ==
  /\ CmdIdle
  /\ QueryIdle
  /\ QuadIdle
  /\ MazeIdle
  /\ PathIdle
  /\ PlotterIdle

\* lines 384-393: a call of sendCommand, up to the await of the write
SendCommand ==
  /\ cmd.phase \in {"idle", "returned", "threw"}
  /\ cmd.sends < MaxSends
  /\ \E timeout \in Timeouts :
       cmd' = [cmd EXCEPT !.phase = "writing", !.timeout = timeout, !.elapsed = 0,
                          !.waited = 0, !.response = <<>>, !.chunks = 0,
                          !.sends = @ + 1, !.result = <<>>, !.error = "none"]
  /\ UNCHANGED notSend

\* lines 393-405: the write resolves; startTime is taken and the first
\* read is raced against the timer
WriteDone ==
  /\ cmd.phase = "writing"
  /\ cmd' = NextPoll([cmd EXCEPT !.phase = "reading"])
  /\ UNCHANGED notSend

\* line 393: the write rejects (the port is gone) and the call throws
WriteThrows ==
  /\ cmd.phase = "writing"
  /\ cmd' = [cmd EXCEPT !.phase = "threw", !.error = "write"]
  /\ UNCHANGED notSend

\* time passes while the race of lines 400-405 is pending
Elapse ==
  /\ cmd.phase = "reading"
  /\ \E d \in Delays :
       /\ cmd.waited + d < PollInterval
       /\ cmd' = [cmd EXCEPT !.elapsed = @ + d, !.waited = @ + d]
  /\ UNCHANGED notSend

\* lines 402-413: the timer wins the race, 100 ms after the read was
\* issued; the read stays pending on the reader
TimerFires ==
  /\ cmd.phase = "reading"
  /\ LET c == [cmd EXCEPT !.elapsed = @ + (PollInterval - cmd.waited),
                          !.waited = PollInterval,
                          !.stale = @ + 1]
     IN  cmd' = IF includesCR(c.response) \/ includesOK(c.response)
                THEN Returns(c)
                ELSE NextPoll(c)
  /\ UNCHANGED notSend

\* lines 401, 415-421: the port delivers a chunk.  It goes to the oldest
\* pending read: one left by an earlier poll takes it and the text is
\* dropped, otherwise the read of this poll appends it.
ChunkArrives ==
  /\ cmd.phase = "reading"
  /\ cmd.chunks < MaxChunks
  /\ \E chunk \in Chunks :
       IF cmd.stale > 0
       THEN cmd' = [cmd EXCEPT !.stale = @ - 1, !.chunks = @ + 1]
       ELSE LET c == [cmd EXCEPT !.response = @ \o chunk, !.chunks = @ + 1]
            IN  cmd' = IF includesOK(c.response) \/ c.response[Len(c.response)] = "CR"
                       THEN Returns(c)
                       ELSE NextPoll(c)
  /\ UNCHANGED notSend

\* line 401: the read rejects (the port is gone) and the call throws
ReadThrows ==
  /\ cmd.phase = "reading"
  /\ cmd' = [cmd EXCEPT !.phase = "threw", !.error = "read"]
  /\ UNCHANGED notSend

NextSend ==
  \/ SendCommand
  \/ WriteDone
  \/ WriteThrows
  \/ Elapse
  \/ TimerFires
  \/ ChunkArrives
  \/ ReadThrows

SpecSend == InitSend /\ [][NextSend]_vars

\* ------------------------------------------------------------------------
\* Properties of the command exchange (SpecSend)
\* ------------------------------------------------------------------------

\* the response holds neither an OK nor a carriage return
NoAck(text) == ~includesOK(text) /\ ~includesCR(text)

\* C20: sendCommand never fails because an acknowledgement is missing.  A
\* call throws only when the write or a read of the port rejects; every
\* poll starts before the timeout and lasts at most one polling interval; a
\* call that returns does so less than one polling interval after the
\* timeout, with the trimmed text received so far, and without an
\* acknowledgement only once the timeout has passed.
C20_TimeoutReturnsText ==
  /\ cmd.phase = "threw" => cmd.error \in {"write", "read"}
  /\ cmd.phase = "reading" =>
       /\ cmd.elapsed - cmd.waited < cmd.timeout
       /\ cmd.waited < PollInterval
  /\ cmd.phase = "returned" =>
       /\ cmd.elapsed < cmd.timeout + PollInterval
       /\ cmd.result = trim(cmd.response)
       /\ NoAck(cmd.response) => cmd.elapsed >= cmd.timeout

\* a call has returned on the timeout with a partial text and no
\* acknowledgement
C20_Witness ==
  /\ cmd.phase = "returned"
  /\ cmd.response # <<>>
  /\ NoAck(cmd.response)
  /\ cmd.elapsed >= cmd.timeout
  /\ cmd.result = cmd.response

\* the port delivers a chunk to the running call in this step
Delivered == cmd.phase = "reading" /\ cmd'.chunks = cmd.chunks + 1

\* C39: what the device sends before the timeout of sendCommand expires
\* becomes part of the response the call returns: no chunk is taken by a
\* read that sendCommand has stopped waiting on, so that an acknowledgement
\* is neither lost nor left for a later command.
C39_NoReplyLost ==
  [][Delivered => Len(cmd'.response) > Len(cmd.response)]_vars

\* ------------------------------------------------------------------------
\* Calls of the pure functions getDensity (src/src/rendering/MazeRenderer.ts,
\* lines 106-111) and estimatePlotTime (src/src/axidraw/job.ts, lines
\* 405-445) (SpecQuery)
\* ------------------------------------------------------------------------

\* the coordinates getDensity is asked for, in and out of range
Coordinates == -2 .. (MaxWidth + 1)

\* segments of an estimate
MaxEstimated == 3

\* endpoints in steps
EstimatePoints == {<<0, 0>>, <<1, 0>>, <<2, 0>>, <<3, 0>>, <<4, 0>>, <<5, 0>>, <<0, 4>>}

\* the distance between two points is a whole number
Whole(p, q) ==
  \E r \in 0 .. 10 : r * r = ((p[1] - q[1]) * (p[1] - q[1])) + ((p[2] - q[2]) * (p[2] - q[2]))

EstimateSegments ==
  {[x1 |-> e[1][1], y1 |-> e[1][2], x2 |-> e[2][1], y2 |-> e[2][2], penHeight |-> 25] :
     e \in {pq \in EstimatePoints \X EstimatePoints : pq[1] # pq[2] /\ Whole(pq[1], pq[2])}}

\* the lists in which the way from the origin and from each segment to the
\* next is a whole number too
EstimateLists ==
  {l \in UNION {[1 .. n -> EstimateSegments] : n \in 0 .. MaxEstimated} :
     \A i \in 1 .. Len(l) :
       Whole(IF i = 1 THEN <<0, 0>> ELSE <<l[i - 1].x2, l[i - 1].y2>>, <<l[i].x1, l[i].y1>>)}

\* speedPercent
Speeds == {50, 100}

notQuery == <<mazeVars, pathVars, plotVars, mazeData, cmd>>

InitQuery ==
  /\ QueryIdle
  /\ CmdIdle
  /\ QuadIdle
  /\ MazeIdle
  /\ PathIdle
  /\ PlotterIdle

\* getDensity(map, x, y) is called
GetDensity ==
  /\ query.op = "none"
  /\ \E map \in DensityMaps, x \in Coordinates, y \in Coordinates :
       query' = [op |-> "getDensity", args |-> <<map, x, y>>, result |-> getDensity(map, x, y)]
  /\ UNCHANGED notQuery

\* estimatePlotTime(segments, speedPercent) is called
EstimatePlotTime ==
  /\ query.op = "none"
  /\ \E segments \in EstimateLists, speedPercent \in Speeds :
       query' = [op |-> "estimatePlotTime", args |-> <<segments, speedPercent>>,
                 result |-> estimatePlotTime(segments, speedPercent)]
  /\ UNCHANGED notQuery

NextQuery ==
  \/ GetDensity
  \/ EstimatePlotTime

SpecQuery == InitQuery /\ [][NextQuery]_vars

\* ------------------------------------------------------------------------
\* Properties of the pure functions (SpecQuery)
\* ------------------------------------------------------------------------

\* C21: getDensity returns the neutral 0.5 for every (x, y) with x < 0,
\* x >= width, y < 0 or y >= height, and the stored value
\* cells[y * width + x] for every coordinate in range.
C21_GetDensityNeutralOutside ==
  query.op = "getDensity" =>
    LET map == query.args[1]
        x == query.args[2]
        y == query.args[3]
    IN  /\ query.result \in Quarters
        /\ (x < 0 \/ x >= map.width \/ y < 0 \/ y >= map.height) => query.result = 2
        /\ (0 <= x /\ x < map.width /\ 0 <= y /\ y < map.height) =>
             query.result = map.cells[(y * map.width) + x + 1]

\* C21 witness: getDensity has returned 0.5 for x = width, with y in range,
\* on a map that stores 0.5 nowhere
C21_Witness ==
  /\ query.op = "getDensity"
  /\ query.args[2] = query.args[1].width
  /\ query.args[3] \in 0 .. (query.args[1].height - 1)
  /\ \A i \in 1 .. Len(query.args[1].cells) : query.args[1].cells[i] # 2
  /\ query.result = 2

\* where the pen is before segment i: the origin, or the end of segment
\* i - 1
PenBefore(l, i) == IF i = 1 THEN <<0, 0>> ELSE <<l[i - 1].x2, l[i - 1].y2>>

\* the segments whose start differs from where the pen is
Repositions(l) == {i \in 1 .. Len(l) : <<l[i].x1, l[i].y1>> # PenBefore(l, i)}

RECURSIVE TravelSteps(_, _)
\* the sum of the travel distances to the repositioned segments up to i
TravelSteps(l, i) ==
  IF i = 0 THEN 0
  ELSE TravelSteps(l, i - 1)
         + (IF i \in Repositions(l)
            THEN hypot(l[i].x1 - PenBefore(l, i)[1], l[i].y1 - PenBefore(l, i)[2])
            ELSE 0)

RECURSIVE DrawSteps(_, _)
\* the sum of the lengths of the segments up to i
DrawSteps(l, i) ==
  IF i = 0 THEN 0
  ELSE DrawSteps(l, i - 1) + hypot(l[i].x2 - l[i].x1, l[i].y2 - l[i].y1)

\* the fraction t is steps / rate + tenths / 10
IsTime(t, steps, rate, tenths) ==
  t[1] * (10 * rate) = ((10 * steps) + (tenths * rate)) * t[2]

\* the estimate is (travel + draw) / (200 + speed / 100 * 1800) + 0.3 *
\* penMoves, with 2 pen moves per reposition and 1 more when the first
\* segment starts at the origin; it is 0 for the empty list
EstimateFormula ==
  LET l == query.args[1]
      speed == query.args[2]
      penMoves == (2 * Cardinality(Repositions(l)))
                    + (IF l # <<>> /\ l[1].x1 = 0 /\ l[1].y1 = 0 THEN 1 ELSE 0)
  IN  IF l = <<>> THEN query.result[1] = 0
      ELSE IsTime(query.result, TravelSteps(l, Len(l)) + DrawSteps(l, Len(l)),
                  200 + (18 * speed), 3 * penMoves)

\* three segments of length 1 with six different endpoints, at speed 50
ThreeApart ==
  /\ Len(query.args[1]) = 3
  /\ query.args[2] = 50
  /\ \A i \in 1 .. 3 :
       hypot(query.args[1][i].x2 - query.args[1][i].x1, query.args[1][i].y2 - query.args[1][i].y1) = 1
  /\ Cardinality(UNION {{<<query.args[1][i].x1, query.args[1][i].y1>>,
                           <<query.args[1][i].x2, query.args[1][i].y2>>} : i \in 1 .. 3}) = 6

\* the estimate is (travel_steps + draw_steps) / 1100 + 1.8
ThreeApartTime ==
  IsTime(query.result, TravelSteps(query.args[1], 3) + DrawSteps(query.args[1], 3), 1100, 18)

\* C23 as stated: the estimate follows the formula, and for every three
\* unit-length segments with no shared endpoints at speed 50 it is
\* (travel_steps + draw_steps) / 1100 + 1.8.
C23_EstimateAsStated ==
  query.op = "estimatePlotTime" =>
    /\ EstimateFormula
    /\ ThreeApart => ThreeApartTime

\* C23: the estimate follows the formula, and for three unit-length
\* segments with no shared endpoints at speed 50, the first of which does
\* not start at the origin, it is (travel_steps + draw_steps) / 1100 + 1.8.
C23_EstimatePlotTime ==
  query.op = "estimatePlotTime" =>
    /\ EstimateFormula
    /\ (ThreeApart /\ <<query.args[1][1].x1, query.args[1][1].y1>> # <<0, 0>>) => ThreeApartTime

\* C23 witness: an estimate for three unit-length segments with no shared
\* endpoints at speed 50, the first starting away from the origin and the
\* others away from the end of the one before
C23_Witness ==
  /\ query.op = "estimatePlotTime"
  /\ ThreeApart
  /\ Cardinality(Repositions(query.args[1])) = 3
  /\ ThreeApartTime

\* ------------------------------------------------------------------------
\* Graph notions over a grid
\* ------------------------------------------------------------------------

\* the boundary between p and its neighbour in direction dir is open: both
\* wall flags are cleared
OpenBoundary(cs, p, dir, w, h) ==
  /\ InGrid(Step(p, dir), w, h)
  /\ ~cs[p].walls[dir]
  /\ ~cs[Step(p, dir)].walls[OPPOSITE[dir]]

\* the number of open interior boundaries
OpenEdgeCount(cs, w, h) ==
  Cardinality({e \in Positions(w, h) \X {"east", "south"} : OpenBoundary(cs, e[1], e[2], w, h)})

RECURSIVE ReachFrom(_, _, _, _)
\* the cells reachable from the set seen by moving only across boundaries
\* whose wall flag is cleared on the side being left
ReachFrom(cs, seen, w, h) ==
  LET more == {q \in Positions(w, h) \ seen :
                 \E p \in seen, dir \in {"north", "south", "east", "west"} :
                   q = Step(p, dir) /\ ~cs[p].walls[dir]}
  IN  IF more = {} THEN seen ELSE ReachFrom(cs, seen \cup more, w, h)

\* the wall flags on the two sides of every interior boundary agree
FlagsAgree(cs, w, h) ==
  \A p \in Positions(w, h) : \A dir \in {"east", "south"} :
    InGrid(Step(p, dir), w, h) => cs[p].walls[dir] = cs[Step(p, dir)].walls[OPPOSITE[dir]]

\* generateBaseMaze has just returned
BaseMazeReturned == phase = "light" /\ cursor = 0

\* generateMaze has returned
MazeReturned == phase = "done"

\* ------------------------------------------------------------------------
\* Properties of the maze generator (SpecMaze)
\* ------------------------------------------------------------------------

\* C1: when generateBaseMaze returns, every cell is marked visited and the
\* graph of the interior boundaries with cleared wall flags is connected and
\* has exactly W * H - 1 edges, i.e. it is a spanning tree of the grid.
C1_BaseMazeSpanningTree ==
  BaseMazeReturned =>
    /\ \A p \in Positions(Width, Height) : cells[p].visited
    /\ FlagsAgree(cells, Width, Height)
    /\ ReachFrom(cells, {<<entranceX, 0>>}, Width, Height) = Positions(Width, Height)
    /\ OpenEdgeCount(cells, Width, Height) = (Width * Height) - 1

\* C1 witness: the base pass has returned on a grid of at least 12 cells
\* whose open boundaries go both east and south
C1_Witness ==
  /\ BaseMazeReturned
  /\ Width * Height >= 12
  /\ \E p, q \in Positions(Width, Height) :
       OpenBoundary(cells, p, "east", Width, Height) /\ OpenBoundary(cells, q, "south", Width, Height)

\* C2: in the grid generateMaze returns, the exit cell is reachable from the
\* entrance cell across boundaries whose wall flags are cleared.
C2_ExitReachable ==
  MazeReturned =>
    <<exitX, Height - 1>> \in ReachFrom(cells, {<<entranceX, 0>>}, Width, Height)

\* C3: a second generateMaze call with the same seed, density map and
\* strengths returns the same wall flags on every cell as the first.
C3_Deterministic ==
  (MazeReturned /\ calls >= 2) =>
    \A p \in Positions(Width, Height) : cells[p].walls = firstGrid[p].walls

\* C3 witness: two calls have returned on a grid with interior cells, with
\* both strengths positive, and the grid is not the all-walls grid
C3_Witness ==
  /\ MazeReturned
  /\ calls = 2
  /\ InteriorCount > 0
  /\ params.wallRemovalStrength > 0
  /\ params.extraWallsStrength > 0
  /\ OpenEdgeCount(cells, Width, Height) > 0
  /\ DOMAIN firstGrid = Positions(Width, Height)

\* C15: in the grid generateMaze returns, every cell is reachable from the
\* entrance cell across boundaries whose wall flags are cleared.
C15_EveryCellReachable ==
  MazeReturned =>
    ReachFrom(cells, {<<entranceX, 0>>}, Width, Height) = Positions(Width, Height)

\* a phase of generateMaze has just ended, or generateMaze has returned
PhaseEnded == (phase \in {"light", "dark", "open"} /\ cursor = 0) \/ phase = "done"

\* C16: after each phase of generateMaze and in the grid it returns, the two
\* wall flags of every interior boundary agree.
C16_WallFlagsAgree == PhaseEnded => FlagsAgree(cells, Width, Height)

\* C16 witness: the dark-area pass has ended on a grid that has fewer open
\* boundaries than its spanning tree had, so the pass has closed a boundary
C16_Witness ==
  /\ phase = "open"
  /\ OpenEdgeCount(cells, Width, Height) < (Width * Height) - 1

\* C17: in the grid generateMaze returns, the north wall of the entrance
\* cell and the south wall of the exit cell are open.
C17_EntranceExitOpen ==
  MazeReturned =>
    /\ ~cells[<<entranceX, 0>>].walls.north
    /\ ~cells[<<exitX, Height - 1>>].walls.south

\* C17 witness: generateMaze has returned a grid of three or more rows on
\* which the dark-area pass has closed a boundary
C17_Witness ==
  /\ MazeReturned
  /\ Height >= 3
  /\ OpenEdgeCount(cells, Width, Height) < (Width * Height) - 1

\* generateMaze is past its base pass
PastBase == phase \in {"light", "dark", "open", "done"}

\* C22: with wallRemovalStrength 0 and extraWallsStrength 0 the grid has
\* exactly W * H - 1 open interior boundaries from the end of the base pass
\* on, through both refinement passes and when generateMaze returns, and a
\* second call returns the same wall flags.
C22_ZeroStrengthKeepsTree ==
  (PastBase /\ params.wallRemovalStrength = 0 /\ params.extraWallsStrength = 0) =>
    /\ OpenEdgeCount(cells, Width, Height) = (Width * Height) - 1
    /\ (MazeReturned /\ calls >= 2) =>
         \A p \in Positions(Width, Height) : cells[p].walls = firstGrid[p].walls

\* C22 witness: the second call with both strengths 0 has returned on the
\* 4 x 4 grid of density 0 with seed 1
C22_Witness ==
  /\ MazeReturned
  /\ calls = 2
  /\ params.wallRemovalStrength = 0 /\ params.extraWallsStrength = 0
  /\ Width = 4 /\ Height = 4 /\ seed = 1
  /\ \A p \in Positions(Width, Height) : cells[p].density = 0
  /\ OpenEdgeCount(cells, Width, Height) = 15

\* the cell the dark-area pass is at
DarkCursor == <<1 + (cursor % (Width - 2)), 1 + (cursor \div (Width - 2))>>

\* C26: whenever addExtraComplexity closes a boundary between a cell and its
\* neighbour, afterwards the cell has at least 2 open sides and the
\* neighbour has at least 2 open sides.
C26_ClosingLeavesTwoOpen ==
  [][(phase = "dark" /\ cells' # cells) =>
       \A dir \in {"north", "south", "east", "west"} :
         (~cells[DarkCursor].walls[dir] /\ cells'[DarkCursor].walls[dir]) =>
           /\ Len(OpenDirs(cells', DarkCursor)) >= 2
           /\ Len(OpenDirs(cells', Step(DarkCursor, dir))) >= 2]_vars

\* the 2 x 2 block whose top-left cell is p has its four internal boundaries
\* open
OpenBlock(cs, p, w, h) ==
  /\ p[1] < w - 1
  /\ p[2] < h - 1
  /\ OpenBoundary(cs, p, "east", w, h)
  /\ OpenBoundary(cs, p, "south", w, h)
  /\ OpenBoundary(cs, Step(p, "east"), "south", w, h)
  /\ OpenBoundary(cs, Step(p, "south"), "east", w, h)

\* C27: during and after the light-area pass no 2 x 2 block of cells has its
\* four internal boundaries open.
C27_NoOpenBlock ==
  PastBase => \A p \in Positions(Width, Height) : ~OpenBlock(cells, p, Width, Height)

\* p lies in the first or last row or column
OnEdge(p, w, h) == p[1] = 0 \/ p[1] = w - 1 \/ p[2] = 0 \/ p[2] = h - 1

\* every wall on the outer border of the grid is present, but for the north
\* wall of the entrance and the south wall of the exit once generateMaze
\* has returned
BorderWalled(cs, w, h, opened) ==
  \A p \in Positions(w, h) : \A dir \in {"north", "south", "east", "west"} :
    ~InGrid(Step(p, dir), w, h) =>
      \/ cs[p].walls[dir]
      \/ opened /\ p = <<w \div 2, 0>> /\ dir = "north"
      \/ opened /\ p = <<w \div 2, h - 1>> /\ dir = "south"

\* C28: the walls on the outer border stay present through every step of
\* generateMaze, but for the entrance's north wall and the exit's south wall
\* in the returned grid, and a step of addExtraComplexity changes no wall
\* flag of a cell in the first or last row or column.
C28_GridEdgeIntact ==
  [][/\ phase' # "idle" => BorderWalled(cells', Width, Height, phase' = "done")
     /\ phase = "dark" =>
          \A p \in Positions(Width, Height) :
            OnEdge(p, Width, Height) => cells'[p].walls = cells[p].walls]_vars

\* C28 witness: both passes have run with positive strengths on a grid with
\* interior cells and have left another number of open boundaries than the
\* tree had
C28_Witness ==
  /\ phase = "open"
  /\ InteriorCount > 0
  /\ params.wallRemovalStrength > 0
  /\ params.extraWallsStrength > 0
  /\ OpenEdgeCount(cells, Width, Height) # (Width * Height) - 1
  /\ BorderWalled(cells, Width, Height, FALSE)

\* the cells marked visited
Visited(cs, w, h) == {p \in Positions(w, h) : cs[p].visited}

\* twice the number of unvisited cells plus the length of the active list
Remaining(cs, act, w, h) ==
  (2 * Cardinality(Positions(w, h) \ Visited(cs, w, h))) + Len(act)

\* C30: every iteration of the loop of generateBaseMaze either marks one
\* unvisited cell and pushes it onto the active list, or removes one cell
\* from the active list; the active list holds visited cells, each once; so
\* a cell is pushed once and removed once, the measure Remaining drops by
\* one in every iteration, and the loop ends with the active list empty.
C30_BaseMazeTerminates ==
  [][phase = "base" =>
       /\ \/ \E p \in Positions(Width, Height) \ Visited(cells, Width, Height) :
               /\ Visited(cells', Width, Height) = Visited(cells, Width, Height) \cup {p}
               /\ active' = Append(active, p)
          \/ /\ Visited(cells', Width, Height) = Visited(cells, Width, Height)
             /\ \E i \in 1 .. Len(active) : active' = RemoveAt(active, i)
       /\ Remaining(cells', active', Width, Height) = Remaining(cells, active, Width, Height) - 1
       /\ \A i, j \in 1 .. Len(active') : active'[i] = active'[j] => i = j
       /\ \A i \in 1 .. Len(active') : cells'[active'[i]].visited
       /\ (phase' # "base") = (active' = <<>>)]_vars

\* C30 witness: the base pass has ended with the active list empty on a grid
\* of 16 cells, all visited
C30_Witness ==
  /\ BaseMazeReturned
  /\ active = <<>>
  /\ Width * Height = 16
  /\ Visited(cells, Width, Height) = Positions(Width, Height)

\* ------------------------------------------------------------------------
\* Properties of the plotter bridge (SpecPlot)
\* ------------------------------------------------------------------------

\* the plot() calls that have not returned yet
RunningPlots == {t \in Tasks : tasks[t].op = "plot"}

\* the methods whose interleavings C5 speaks of
DeviceMethods ==
  {"plot", "testPenHeight", "goHome", "drawTestPattern", "testBounds", "disconnect"}

\* the calls with a device command outstanding: written and not yet
\* answered, or its motion delay not yet over
Outstanding ==
  {t \in Tasks : tasks[t].op \in DeviceMethods /\ tasks[t].wait \in {"ack", "delay"}}

\* C4: at most one plot job runs at a time: while a plot() call has not
\* returned, no second plot() call runs a drawing loop, whatever the state of
\* the plotter.
C4_OnePlotJob == Cardinality(RunningPlots) <= 1

\* C5: at most one device command is outstanding at any time, over all the
\* interleavings of plot, testPenHeight, goHome, drawTestPattern, testBounds
\* and disconnect.
C5_OneCommandOutstanding == Cardinality(Outstanding) <= 1

\* C6: a plot job that pause() holds begins no further segment before
\* resume() is called, and the resume() step takes a job that waits at the
\* pause to its next segment.
C6_PauseHoldsNextSegment ==
  [][\A t \in Tasks :
       /\ (tasks[t].op = "plot" /\ tasks'[t].op = "plot" /\ tasks[t].held /\ tasks'[t].held)
             => tasks'[t].i = tasks[t].i
       /\ (tasks[t].op = "plot" /\ tasks[t].wait = "pause" /\ tasks[t].held /\ ~tasks'[t].held)
             => tasks'[t].i = tasks[t].i + 1]_vars

\* C7: after stop() is called during a plot job, the job begins no further
\* segment, whether it was plotting or paused when stop() was called.
C7_StopStartsNoSegment ==
  [][\A t \in Tasks :
       (tasks[t].op = "plot" /\ tasks'[t].op = "plot" /\ tasks'[t].stopped)
         => tasks'[t].i = tasks[t].i]_vars

\* C8: when a device command of a running plot() call throws, the call
\* rejects with that error, its job ends with no further command written,
\* and the plotter state is 'connected'; every plot() call that ends with an
\* error leaves the state 'connected' and writes nothing as it ends.
C8_ThrowEndsPlotJob ==
  [][\A t \in Tasks :
       /\ (CommandThrows /\ tasks[t].op = "plot" /\ tasks[t].wait = "ack"
              /\ tasks'[t] # tasks[t])
             => /\ tasks'[t] = IdleTask
                /\ returned' = [op |-> "plot", result |-> DeviceError]
                /\ plotter'.state = "connected"
                /\ sent' = <<>>
       /\ (tasks[t].op = "plot" /\ tasks'[t].op = "none"
              /\ returned'.op = "plot" /\ returned'.result # "resolved")
             => /\ plotter'.state = "connected"
                /\ \A j \in 1 .. Len(sent') : sent'[j].task # t]_vars

\* a device command of a plot() call has thrown while the job was drawing
\* its second segment with the plotter paused before the throw: the call has
\* rejected with the error and the state is 'connected'
C8_Witness ==
  /\ returned = [op |-> "plot", result |-> DeviceError]
  /\ RunningPlots = {}
  /\ plotter.state = "connected"
  /\ plotter.pausePromise = "pending"
  /\ plotter.progress.current = 2

\* C9: during plot(), no move to the start of a segment is written while
\* the pen of the device is down, and every drawing move is written while it
\* is down.
C9_TravelUpDrawDown ==
  \A j \in 1 .. Len(sent) :
    (sent[j].op = "plot" /\ sent[j].c = "SM")
      => /\ (sent[j].p = "travel" => ~sent[j].penDown)
         /\ (sent[j].p = "draw" => sent[j].penDown)

\* a plot() call is accepted in this step
PlotStarts == \E t \in Tasks : tasks[t].op # "plot" /\ tasks'[t].op = "plot"

\* C25: while a plot job of n segments runs, the status reports
\* totalSegments = n and 0 <= currentSegment <= totalSegments, its progress
\* is round(100 * currentSegment / totalSegments) within 0..100, or 0 when
\* totalSegments is 0, and from the 0 the job starts with currentSegment
\* never decreases.
C25_ProgressReport ==
  [][LET before == getStatus(plotter)
         status == getStatus(plotter')
     IN  /\ \A t \in Tasks :
              tasks'[t].op = "plot" => status.totalSegments = Len(PlotJobs[tasks'[t].job])
         /\ 0 <= status.currentSegment /\ status.currentSegment <= status.totalSegments
         /\ status.progress \in 0 .. 100
         /\ \A k \in 0 .. 100 :
              (status.totalSegments > 0
                 /\ ((2 * k) - 1) * status.totalSegments <= 200 * status.currentSegment
                 /\ 200 * status.currentSegment < ((2 * k) + 1) * status.totalSegments)
                => status.progress = k
         /\ status.totalSegments = 0 => status.progress = 0
         /\ IF PlotStarts THEN status.currentSegment = 0
            ELSE status.currentSegment >= before.currentSegment]_vars

\* the plot() call t begins its next segment in this step
BeginsSegment(t) ==
  tasks[t].op = "plot" /\ tasks'[t].op = "plot" /\ tasks'[t].i = tasks[t].i + 1

\* the call t has written the first command of penUp() in this step
PenUpIssued(t) == \E j \in 1 .. Len(sent') : sent'[j].task = t /\ sent'[j].c = "SC4"

\* the call t goes on with a move to the start of a segment
TravelIssued(t) ==
  \E k \in 1 .. Len(tasks'[t].q) : tasks'[t].q[k].k = "moveTo" /\ tasks'[t].q[k].p = "travel"

\* the position the EBB object tracks is the start of segment seg
AtStart(seg) == ebb.currentX = seg.x1 /\ ebb.currentY = seg.y1

\* segment number i of the list job starts where the one before it ended
Contiguous(job, i) ==
  /\ i > 1
  /\ PlotJobs[job][i - 1].x2 = PlotJobs[job][i].x1
  /\ PlotJobs[job][i - 1].y2 = PlotJobs[job][i].y1

\* the first half of C31: as a segment begins, penUp and the move to its
\* start are issued exactly when the tracked position is not its start
TravelIffAway ==
  [][\A t \in Tasks :
       BeginsSegment(t)
         => IF AtStart(PlotJobs[tasks'[t].job][tasks'[t].i])
            THEN ~PenUpIssued(t) /\ ~TravelIssued(t)
            ELSE PenUpIssued(t) /\ TravelIssued(t)]_vars

\* C31: in plot(), as a segment begins, penUp followed by a move to the start
\* of the segment is issued if and only if the position the EBB tracks
\* differs from that start; and when the segment starts exactly where the
\* previous one ended, no pen-up and no travel move is issued between them.
C31_TravelOnlyWhenAway ==
  [][\A t \in Tasks :
       BeginsSegment(t)
         => /\ IF AtStart(PlotJobs[tasks'[t].job][tasks'[t].i])
               THEN ~PenUpIssued(t) /\ ~TravelIssued(t)
               ELSE PenUpIssued(t) /\ TravelIssued(t)
            /\ Contiguous(tasks'[t].job, tasks'[t].i)
                 => ~PenUpIssued(t) /\ ~TravelIssued(t)]_vars

\* the plot() calls that await the pause promise, or a promise that
\* nothing resolves any more
Blocked == {t \in Tasks : tasks[t].op = "plot" /\ tasks[t].wait \in {"pause", "forever"}}

\* C36: a plot job is blocked waiting for a resume only while the state of
\* the plotter is 'paused'; in state 'plotting' no job waits, so that a job
\* whose commands complete and whose every pause() is followed by a resume()
\* finishes, also one started after an earlier job ended while paused.
C36_BlockedOnlyWhilePaused == Blocked # {} => plotter.state = "paused"

\* C37: in every reachable state of a Plotter whose state is not
\* 'disconnected' an EBB is attached (this.ebb is not null); so stop(),
\* pause(), resume() and the end of a plot job never take a plotter without
\* a connection out of 'disconnected'.
C37_ConnectedHasEbb == plotter.state # "disconnected" => plotter.hasEbb

\* the methods that need a connected plotter
NeedConnection == {"plot", "goHome", "testPenHeight", "testBounds", "drawTestPattern"}

\* no connect() call has completed successfully: no method has been called
\* yet, or the only call made is a connect() that still runs or that has
\* just rejected
NeverConnected ==
  \/ callsMade = 0
  \/ /\ callsMade = 1
     /\ \/ tasks[1].op = "connect"
        \/ returned.op = "connect" /\ returned.result # "resolved"

\* C38: unless a connect() call has completed successfully, plot(), goHome()
\* and the pen tests are rejected with 'Not connected', write no device
\* command and leave state and progress as they are; in particular after a
\* connect() whose handshake failed no plot can be started.
C38_NotConnectedUntilConnect ==
  [][(NeverConnected /\ callsMade' = callsMade + 1 /\ ~Connect /\ ~Disconnect)
       => /\ returned'.op \in NeedConnection
          /\ returned'.result = "Not connected"
          /\ \A t \in Tasks : tasks'[t].op \notin NeedConnection
          /\ sent' = <<>>
          /\ plotter' = plotter]_vars

\* a plot() call returns in this step, and no other one is left running
PlotEnds ==
  /\ \E t \in Tasks : tasks[t].op = "plot" /\ tasks'[t].op = "none"
  /\ \A t \in Tasks : tasks'[t].op # "plot"

\* C40: when a plot job ends, by completion, stop or error, the progress
\* callback given to plot() has received a status whose state is
\* 'connected': the last status an observer has of a job that has ended
\* shows neither 'plotting' nor 'paused'.
C40_EndIsNotified ==
  [][PlotEnds => observed'.state = "connected"]_vars

\* ------------------------------------------------------------------------
\* Properties of the quadtree variant and of the wall extractor (SpecQuad)
\* ------------------------------------------------------------------------

\* the two endpoints of a segment, as an unordered pair
EndsOf(seg) == {<<seg.x1, seg.y1>>, <<seg.x2, seg.y2>>}

\* how often a wall occurs in a list of walls
TimesIn(walls, wall) == Cardinality({k \in 1 .. Len(walls) : walls[k] = wall})

\* the lists a and b hold the same walls the same number of times
SameMultiset(a, b) ==
  /\ Len(a) = Len(b)
  /\ \A k \in 1 .. Len(a) : TimesIn(a, a[k]) = TimesIn(b, a[k])

\* no two walls of the list have the same endpoints, and each wall has its
\* smaller endpoint first
Deduplicated(walls) ==
  /\ \A j, k \in 1 .. Len(walls) : EndsOf(walls[j]) = EndsOf(walls[k]) => j = k
  /\ \A k \in 1 .. Len(walls) :
       \/ walls[k].x1 < walls[k].x2
       \/ (walls[k].x1 = walls[k].x2 /\ walls[k].y1 <= walls[k].y2)

\* C11: the list deduplicateWalls returns has no two segments with the same
\* unordered endpoint pair, holds the endpoint pair of every input segment,
\* has the smaller endpoint of each segment first, and is returned unchanged
\* by deduplicateWalls; two runs of extractWalls on one maze return the same
\* multiset of segments, which is deduplicated too.
C11_DeduplicateWalls ==
  /\ pathOp = "deduplicateWalls" =>
       /\ Deduplicated(pathOut)
       /\ \A k \in 1 .. Len(pathIn) : \E j \in 1 .. Len(pathOut) : EndsOf(pathOut[j]) = EndsOf(pathIn[k])
       /\ \A j \in 1 .. Len(pathOut) : \E k \in 1 .. Len(pathIn) : EndsOf(pathOut[j]) = EndsOf(pathIn[k])
       /\ deduplicateWalls(pathOut) = pathOut
  /\ mazeData.extractions >= 1 => Deduplicated(mazeData.walls)
  /\ mazeData.extractions >= 2 => SameMultiset(mazeData.walls, mazeData.firstWalls)

\* C11 witness: deduplicateWalls has returned two segments for a list of
\* three in which one segment occurs in both directions
C11_Witness ==
  /\ pathOp = "deduplicateWalls"
  /\ Len(pathIn) = 3
  /\ Len(pathOut) = 2
  /\ \E j, k \in 1 .. 3 :
       /\ pathIn[j].x1 = pathIn[k].x2 /\ pathIn[j].y1 = pathIn[k].y2
       /\ pathIn[j].x2 = pathIn[k].x1 /\ pathIn[j].y2 = pathIn[k].y1
       /\ EndsOf(pathIn[j]) # {<<pathIn[j].x1, pathIn[j].y1>>}

\* extractWalls has returned
Extracted == mazeData.extractions >= 1

\* node number i has no neighbour on the side
OnBorder(i, side) == \A k \in 1 .. Len(mazeData.neighbors[i]) : mazeData.neighbors[i][k].side # side

\* the walls returned hold one along the side of node number i
WallAlong(i, side) ==
  \E k \in 1 .. Len(mazeData.walls) :
    EndsOf(mazeData.walls[k]) = EndsOf(wallOf(mazeData.nodes[i], side))

\* C12: the walls extractWalls returns hold no wall on the top side of the
\* start node and none on the bottom side of the end node, and hold a wall
\* on every other side of a node that has no neighbour.
C12_OpeningsUnwalled ==
  Extracted =>
    /\ ~WallAlong(mazeData.startNode, "top")
    /\ ~WallAlong(mazeData.endNode, "bottom")
    /\ \A i \in 1 .. Len(mazeData.nodes), side \in {"top", "right", "bottom", "left"} :
         (OnBorder(i, side) /\ <<i, side>> \notin {<<mazeData.startNode, "top">>, <<mazeData.endNode, "bottom">>})
           => WallAlong(i, side)

\* the part of the side of node a that it shares with its neighbour b: from
\* the larger of the two starts to the smaller of the two ends
SharedSpan(a, b, side) ==
  IF side \in {"top", "bottom"}
  THEN [x1 |-> IF a.x > b.x THEN a.x ELSE b.x,
        y1 |-> IF side = "top" THEN a.y ELSE a.y + a.h,
        x2 |-> IF a.x + a.w < b.x + b.w THEN a.x + a.w ELSE b.x + b.w,
        y2 |-> IF side = "top" THEN a.y ELSE a.y + a.h]
  ELSE [x1 |-> IF side = "left" THEN a.x ELSE a.x + a.w,
        y1 |-> IF a.y > b.y THEN a.y ELSE b.y,
        x2 |-> IF side = "left" THEN a.x ELSE a.x + a.w,
        y2 |-> IF a.y + a.h < b.y + b.h THEN a.y + a.h ELSE b.y + b.h]

\* the wall and the span lie on one line and have more than a point in common
CoversPartOf(wall, span) ==
  \/ /\ span.y1 = span.y2 /\ wall.y1 = span.y1 /\ wall.y2 = span.y1
     /\ Overlap(wall.x1, wall.x2, span.x1, span.x2) > 0
  \/ /\ span.x1 = span.x2 /\ wall.x1 = span.x1 /\ wall.x2 = span.x1
     /\ Overlap(wall.y1, wall.y2, span.y1, span.y2) > 0

\* the wall holds the whole span
CoversAll(wall, span) ==
  /\ CoversPartOf(wall, span)
  /\ wall.x1 <= span.x1 /\ span.x2 <= wall.x2
  /\ wall.y1 <= span.y1 /\ span.y2 <= wall.y2

\* the adjacent pairs of nodes: node number i, and the record nb of one of
\* its neighbours
Adjacent == {p \in (1 .. Len(mazeData.nodes)) \X UNION {{mazeData.neighbors[i][k] : k \in 1 .. Len(mazeData.neighbors[i])} : i \in 1 .. Len(mazeData.nodes)} :
               \E k \in 1 .. Len(mazeData.neighbors[p[1]]) : mazeData.neighbors[p[1]][k] = p[2]}

\* the span that the pair p of Adjacent shares
SpanOf(p) == SharedSpan(mazeData.nodes[p[1]], mazeData.nodes[p[2].node], p[2].side)

\* the two nodes of the pair p are connected
Connected(p) == hasKey(mazeData.conn[p[1]], p[2].node)

\* C13: in the walls extractWalls returns, the boundary two adjacent nodes
\* share is covered by a wall when they are not connected, and no wall
\* covers any part of it when they are connected.
C13_WallIffNotConnected ==
  Extracted =>
    \A p \in Adjacent :
      IF Connected(p)
      THEN \A k \in 1 .. Len(mazeData.walls) : ~CoversPartOf(mazeData.walls[k], SpanOf(p))
      ELSE \E k \in 1 .. Len(mazeData.walls) : CoversAll(mazeData.walls[k], SpanOf(p))

\* C14: every wall extractWalls returns for a side that has a neighbour
\* spans exactly the extent the node shares with a neighbour it is not
\* connected to; the other walls are the sides without a neighbour.
C14_WallSpansSharedExtent ==
  Extracted =>
    \A k \in 1 .. Len(mazeData.walls) :
      \/ \E i \in 1 .. Len(mazeData.nodes), side \in {"top", "right", "bottom", "left"} :
           OnBorder(i, side) /\ EndsOf(mazeData.walls[k]) = EndsOf(wallOf(mazeData.nodes[i], side))
      \/ \E p \in Adjacent : ~Connected(p) /\ EndsOf(mazeData.walls[k]) = EndsOf(SpanOf(p))

\* the carving loop has ended
Carved == (mazeData.phase = "carve" /\ mazeData.stack = <<>>) \/ mazeData.phase = "done"

RECURSIVE ReachByConnections(_)
\* the nodes reachable from the set seen along the connections
ReachByConnections(seen) ==
  LET more == {n \in 1 .. Len(mazeData.nodes) : \E a \in seen : hasKey(mazeData.conn[a], n)} \ seen
  IN  IF more = {} THEN seen ELSE ReachByConnections(seen \cup more)

\* C18: after the carving loop every leaf is visited and the connections are
\* a spanning tree of the leaves: symmetric, with one edge less than there
\* are leaves, and connected from startNode; the solution search then finds
\* a path from startNode to endNode.
C18_QuadtreeSpanningTree ==
  /\ Carved =>
       /\ mazeData.visited = 1 .. Len(mazeData.nodes)
       /\ \A a, b \in 1 .. Len(mazeData.nodes) :
            hasKey(mazeData.conn[a], b) <=> hasKey(mazeData.conn[b], a)
       /\ Cardinality({e \in (1 .. Len(mazeData.nodes)) \X (1 .. Len(mazeData.nodes)) :
                         hasKey(mazeData.conn[e[1]], e[2])}) = 2 * (Len(mazeData.nodes) - 1)
       /\ \A a \in 1 .. Len(mazeData.nodes) :
            Cardinality({b \in 1 .. Len(mazeData.nodes) : hasKey(mazeData.conn[a], b)})
              = Len(mazeData.conn[a])
       /\ ReachByConnections({mazeData.startNode}) = 1 .. Len(mazeData.nodes)
  /\ mazeData.phase = "done" =>
       /\ mazeData.solution # <<>>
       /\ Head(mazeData.solution) = mazeData.startNode
       /\ mazeData.solution[Len(mazeData.solution)] = mazeData.endNode

\* C18 witness: the search has returned on leaves of two sizes, ten or more
\* of them, with a solution of four or more nodes
C18_Witness ==
  /\ mazeData.phase = "done"
  /\ Len(mazeData.nodes) >= 10
  /\ \E a, b \in 1 .. Len(mazeData.nodes) : mazeData.nodes[a].w # mazeData.nodes[b].w
  /\ Len(mazeData.solution) >= 4

\* subdivide(0, 0, mazeWidth, mazeHeight) has returned
Subdivided == mazeData.phase \in {"carve", "done"}

RECURSIVE AreaFrom(_)
\* the sum of the areas of the leaves from number i on
AreaFrom(i) ==
  IF i > Len(mazeData.nodes) THEN 0
  ELSE (mazeData.nodes[i].w * mazeData.nodes[i].h) + AreaFrom(i + 1)

\* C19: the leaves of subdivide(0, 0, W, H) tile the region: every point of
\* [0, W) x [0, H) lies in exactly one leaf, and the areas sum to W * H.
C19_LeavesTileRegion ==
  Subdivided =>
    /\ \A px \in 0 .. (mazeData.width - 1), py \in 0 .. (mazeData.height - 1) :
         Cardinality({i \in 1 .. Len(mazeData.nodes) :
                        /\ mazeData.nodes[i].x <= px /\ px < mazeData.nodes[i].x + mazeData.nodes[i].w
                        /\ mazeData.nodes[i].y <= py /\ py < mazeData.nodes[i].y + mazeData.nodes[i].h}) = 1
    /\ AreaFrom(1) = mazeData.width * mazeData.height

\* C19 witness: subdivide has returned leaves of two sizes
C19_Witness ==
  /\ Subdivided
  /\ \E a, b \in 1 .. Len(mazeData.nodes) : mazeData.nodes[a].w # mazeData.nodes[b].w

\* rectangles of pixels of the canvas, [x0, x1) x [y0, y1)
Regions ==
  { [x0 |-> 0, x1 |-> 100, y0 |-> 0, y1 |-> 100],
    [x0 |-> 0, x1 |-> 100, y0 |-> 0, y1 |-> 256],
    [x0 |-> 0, x1 |-> 128, y0 |-> 0, y1 |-> 128],
    [x0 |-> 0, x1 |-> 256, y0 |-> 0, y1 |-> 256] }

InRegion(R, sx, sy) == R.x0 <= sx /\ sx < R.x1 /\ R.y0 <= sy /\ sy < R.y1

\* the images a and b differ only in that every pixel of R is darker in b,
\* by the same amount
DarkerIn(a, b, R) ==
  LET delta == pixel(a, R.x0, R.y0) - pixel(b, R.x0, R.y0)
  IN  /\ delta > 0
      /\ \A sx \in 0 .. 255, sy \in 0 .. 255 :
           pixel(b, sx, sy) = IF InRegion(R, sx, sy) THEN pixel(a, sx, sy) - delta ELSE pixel(a, sx, sy)

\* the pairs of images of which the second is the first with the region
\* darkened
DarkerPairs == {t \in Images \X Images \X Regions : DarkerIn(t[1], t[2], t[3])}

\* the leaf lies within R: the pixels of the canvas that its points map to
\* (gx to floor(gx / width * 255)) are pixels of R
LeafWithin(n, R, width, height) ==
  /\ InRegion(R, (n.x * 255) \div width, (n.y * 255) \div height)
  /\ InRegion(R, ((((n.x + n.w) * 255) + width - 1) \div width) - 1,
                 ((((n.y + n.h) * 255) + height - 1) \div height) - 1)

LeavesWithin(nodes, R, width, height) ==
  Cardinality({i \in 1 .. Len(nodes) : LeafWithin(nodes[i], R, width, height)})

\* the leaves subdivide produces for the image b, the other parameters
\* being those of mazeData
LeavesFor(b) ==
  subdivideAll([mazeData EXCEPT
                  !.image = b, !.nodes = <<>>,
                  !.todo = << [x |-> 0, y |-> 0, w |-> mazeData.width, h |-> mazeData.height] >>]).nodes

\* C24: for an image b that differs from the image of the call only in that
\* a region R is uniformly darker, subdivide produces for b at least as many
\* leaves within R as it has produced for the image of the call.
C24_DarkerRegionMoreLeaves ==
  Subdivided =>
    \A t \in DarkerPairs :
      t[1] = mazeData.image =>
        LeavesWithin(LeavesFor(t[2]), t[3], mazeData.width, mazeData.height)
          >= LeavesWithin(mazeData.nodes, t[3], mazeData.width, mazeData.height)

RECURSIVE Pending(_)
\* twice the area of the regions still to subdivide, less one for each
Pending(todo) ==
  IF todo = <<>> THEN 0
  ELSE (2 * Head(todo).w * Head(todo).h) - 1 + Pending(Tail(todo))

\* the smaller side of a region
CellSize(r) == IF r.w < r.h THEN r.w ELSE r.h

\* C29: a call of subdivide splits its region into four equal quadrants
\* exactly when min(w, h) > minCellSize and min(w, h) > finalThreshold, and
\* pushes it as a leaf otherwise, so a region with min(w, h) <= minCellSize
\* is always a leaf; every call lowers the measure Pending, which is never
\* negative, so the recursion ends.
C29_SplitIffAboveBoth ==
  [][(mazeData.phase = "subdivide" /\ mazeData.todo # <<>>) =>
       LET r == Head(mazeData.todo)
           rest == Tail(mazeData.todo)
           todo == mazeData'.todo
       IN  /\ IF CellSize(r) > mazeData.minCellSize /\ aboveThreshold(mazeData, r)
              THEN /\ mazeData'.nodes = mazeData.nodes
                   /\ Len(todo) = Len(rest) + 4
                   /\ SubSeq(todo, 5, Len(todo)) = rest
                   /\ \A k \in 1 .. 4 : 2 * todo[k].w = r.w /\ 2 * todo[k].h = r.h
                   /\ {<<todo[k].x, todo[k].y>> : k \in 1 .. 4}
                        = {r.x, r.x + todo[1].w} \X {r.y, r.y + todo[1].h}
              ELSE /\ todo = rest
                   /\ Len(mazeData'.nodes) = Len(mazeData.nodes) + 1
                   /\ LET n == mazeData'.nodes[Len(mazeData'.nodes)]
                      IN  n.x = r.x /\ n.y = r.y /\ n.w = r.w /\ n.h = r.h
           /\ CellSize(r) <= mazeData.minCellSize => todo = rest
           /\ Pending(todo) < Pending(mazeData.todo)
           /\ Pending(todo) >= 0]_vars

\* C29 witness: subdivide has returned a leaf that is no larger than
\* minCellSize although its threshold is below its size, and a leaf that is
\* larger than minCellSize
C29_Witness ==
  /\ Subdivided
  /\ \E i, j \in 1 .. Len(mazeData.nodes) :
       /\ CellSize(mazeData.nodes[i]) <= mazeData.minCellSize
       /\ aboveThreshold(mazeData, mazeData.nodes[i])
       /\ CellSize(mazeData.nodes[j]) > mazeData.minCellSize

\* the side of a neighbour that faces the node
Facing == [top |-> "bottom", bottom |-> "top", left |-> "right", right |-> "left"]

\* the wall lies along the whole side of node number i
AlongSide(wall, i, side) == wallKey(wall) = wallKey(normalized(wallOf(mazeData.nodes[i], side)))

\* C35: the brightness of a wall that extractWalls returns is the
\* rawBrightness of the node for a wall on a side without a neighbour, and
\* the average of the rawBrightness of the two nodes for a wall that is a
\* whole side of both of two adjacent nodes, whichever of them is first in
\* the list of nodes.
C35_WallBrightness ==
  Extracted =>
    \A k \in 1 .. Len(mazeData.walls), i \in 1 .. Len(mazeData.nodes),
       side \in {"top", "right", "bottom", "left"} :
      AlongSide(mazeData.walls[k], i, side)
        => IF OnBorder(i, side)
           THEN mazeData.walls[k].brightness = mazeData.nodes[i].rawBrightness
           ELSE \A n \in 1 .. Len(mazeData.neighbors[i]) :
                  (/\ mazeData.neighbors[i][n].side = side
                   /\ AlongSide(mazeData.walls[k], mazeData.neighbors[i][n].node, Facing[side]))
                    => 2 * mazeData.walls[k].brightness =
                         mazeData.nodes[i].rawBrightness
                           + mazeData.nodes[mazeData.neighbors[i][n].node].rawBrightness

\* the half of C35 about the sides without a neighbour
BorderWallBrightness ==
  Extracted =>
    \A k \in 1 .. Len(mazeData.walls), i \in 1 .. Len(mazeData.nodes),
       side \in {"top", "right", "bottom", "left"} :
      (AlongSide(mazeData.walls[k], i, side) /\ OnBorder(i, side))
        => mazeData.walls[k].brightness = mazeData.nodes[i].rawBrightness

\* ------------------------------------------------------------------------
\* Properties of the path ordering (SpecPath)
\* ------------------------------------------------------------------------

\* seg with its two endpoints swapped
Swapped(seg) == [x1 |-> seg.x2, y1 |-> seg.y2, x2 |-> seg.x1, y2 |-> seg.y1, penHeight |-> seg.penHeight]

\* a segment with its endpoints in a fixed order
Canon(seg) ==
  IF seg.x1 < seg.x2 \/ (seg.x1 = seg.x2 /\ seg.y1 <= seg.y2) THEN seg ELSE Swapped(seg)

\* how many segments of sq are c up to the order of the endpoints
CountOf(sq, c) == Cardinality({i \in 1 .. Len(sq) : Canon(sq[i]) = c})

\* C10: the output of optimizePath and of stitchSegmentsIntoChains holds
\* each input segment exactly once, unchanged or with its endpoints swapped,
\* and nothing else.
C10_OutputIsRearrangement ==
  pathOp # "none" =>
    /\ Len(pathOut) = Len(pathIn)
    /\ \A i \in 1 .. Len(pathIn) :
         CountOf(pathOut, Canon(pathIn[i])) = CountOf(pathIn, Canon(pathIn[i]))
    /\ \A j \in 1 .. Len(pathOut) :
         \/ \E i \in 1 .. Len(pathIn) : pathOut[j] = pathIn[i]
         \/ \E i \in 1 .. Len(pathIn) : pathOut[j] = Swapped(pathIn[i])

\* C10 witness: stitchSegmentsIntoChains has returned three segments, in
\* another order than given and one of them with swapped endpoints, and one
\* input segment occurs twice
C10_Witness ==
  /\ pathOp = "stitchSegmentsIntoChains"
  /\ Len(pathIn) = 3
  /\ pathOut[1] # pathIn[1]
  /\ \E j \in 1 .. 3 : \A i \in 1 .. 3 : pathOut[j] # pathIn[i]
  /\ \E i, k \in 1 .. 3 : i # k /\ pathIn[i] = pathIn[k]

\* the two terminal points of a chain
ChainStart(ch) == <<ch[1].x1, ch[1].y1>>
ChainEnd(ch) == <<ch[Len(ch)].x2, ch[Len(ch)].y2>>

\* the squared distance from cur to the nearer terminal of ch
TerminalDist(ch, cur) ==
  IF Dist2(ChainEnd(ch)[1], ChainEnd(ch)[2], cur) < Dist2(ChainStart(ch)[1], ChainStart(ch)[2], cur)
  THEN Dist2(ChainEnd(ch)[1], ChainEnd(ch)[2], cur)
  ELSE Dist2(ChainStart(ch)[1], ChainStart(ch)[2], cur)

\* ch in the opposite direction: the segments in reverse order, each with
\* its endpoints swapped
Backwards(ch) == [i \in 1 .. Len(ch) |-> Swapped(ch[Len(ch) + 1 - i])]

\* ch as the greedy ordering appends it with the pen at cur: backwards
\* exactly when its end is strictly nearer than its start
Placed(ch, cur) ==
  IF Dist2(ChainEnd(ch)[1], ChainEnd(ch)[2], cur) < Dist2(ChainStart(ch)[1], ChainStart(ch)[2], cur)
  THEN Backwards(ch) ELSE ch

RECURSIVE GreedyFrom(_, _, _)
\* out is a greedy nearest-neighbour ordering of the chains chs with the pen
\* at cur
GreedyFrom(chs, cur, out) ==
  IF chs = <<>> THEN out = <<>>
  ELSE \E i \in 1 .. Len(chs) :
         /\ \A j \in 1 .. Len(chs) : TerminalDist(chs[i], cur) <= TerminalDist(chs[j], cur)
         /\ Len(out) >= Len(chs[i])
         /\ SubSeq(out, 1, Len(chs[i])) = Placed(chs[i], cur)
         /\ GreedyFrom(RemoveAt(chs, i), ChainEnd(Placed(chs[i], cur)),
                       SubSeq(out, Len(chs[i]) + 1, Len(out)))

\* stitchSegmentsIntoChains has returned
Stitched == pathOp = "stitchSegmentsIntoChains"

GreedyOnLists ==
  (Stitched /\ Len(pathIn) >= 2) => GreedyFrom(buildChains(pathIn), <<0, 0>>, pathOut)

\* the chains stitchSegmentsIntoChains has built from its input
Chains == buildChains(pathIn)

\* consecutive segments of ch share the point between them
Joined(ch) ==
  \A k \in 1 .. (Len(ch) - 1) : ch[k].x2 = ch[k + 1].x1 /\ ch[k].y2 = ch[k + 1].y1

\* the places of out where the pen has to travel to the next segment
Breaks(out) ==
  {k \in 1 .. (Len(out) - 1) : out[k].x2 # out[k + 1].x1 \/ out[k].y2 # out[k + 1].y1}

\* C33: every chain stitchSegmentsIntoChains builds is endpoint-contiguous,
\* the end point of each of its segments being exactly the start point of
\* the next, also after the chain has been reversed for the ordering; so
\* the returned list has fewer breaks than there are chains.
C33_ChainsContiguous ==
  Stitched =>
    /\ \A c \in 1 .. Len(Chains) : Joined(Chains[c]) /\ Joined(reverseChain(Chains[c]))
    /\ Len(pathIn) >= 2 => Cardinality(Breaks(pathOut)) < Len(Chains)

\* C33 witness: a chain of three segments, one of them turned round to fit,
\* with distinct terminals, has been returned reversed
C33_Witness ==
  /\ Stitched
  /\ Len(Chains) = 1
  /\ Len(Chains[1]) = 3
  /\ ChainStart(Chains[1]) # ChainEnd(Chains[1])
  /\ \E k \in 1 .. 3 : \A i \in 1 .. 3 : Chains[1][k] # pathIn[i]
  /\ pathOut = Backwards(Chains[1])
  /\ pathOut # Chains[1]

\* the terminal points of a chain
Terminals(ch) == {ChainStart(ch), ChainEnd(ch)}

\* C34: when stitchSegmentsIntoChains has built its chains, no terminal
\* point of one chain is a terminal point of a different chain.
C34_ChainsMaximal ==
  Stitched =>
    \A c, d \in 1 .. Len(Chains) : c # d => Terminals(Chains[c]) \cap Terminals(Chains[d]) = {}

\* C34 witness: three segments that meet in one point have become two
\* chains, the second of which ends on the inside of the first
C34_Witness ==
  /\ Stitched
  /\ Len(Chains) = 2
  /\ Len(Chains[1]) = 2
  /\ <<Chains[1][1].x2, Chains[1][1].y2>> \in Terminals(Chains[2])
  /\ <<Chains[1][1].x2, Chains[1][1].y2>> \notin Terminals(Chains[1])
  /\ ChainStart(Chains[2]) # ChainEnd(Chains[2])

====
